---- MODULE Spec2Model ----
(***************************************************************************)
(* A model of the xamla_motion client library: the JointTrajectoryPoint    *)
(* data type (constructor, merge, cubic interpolation, time shifts, wire   *)
(* conversion) and the MoveOperation builder family with its plan()        *)
(* pipelines.                                                              *)
(*                                                                         *)
(* Conventions.                                                            *)
(*  - A datetime.timedelta is an integer number of microseconds (its       *)
(*    resolution); total_seconds() is that number over MicrosPerSecond.    *)
(*  - A JointValues is [js, vals, den]: joint names in order, and the      *)
(*    value of joint i is the rational vals[i] / den.  Values given by a   *)
(*    caller have den = 1; interpolation yields other denominators.        *)
(*    Python's None is NoneJV (den = 0).  Floating-point rounding is not   *)
(*    modelled: arithmetic is exact.                                       *)
(*  - A call that raises yields a record of kind "error".                  *)
(***************************************************************************)
EXTENDS Integers, Sequences, FiniteSets, TLC

VARIABLES
    pc,      \* "ready": inputs drawn, "done": the call has returned or raised
    call,    \* the method called on recv
    recv,    \* the receiver (self) of a JointTrajectoryPoint method
    others,  \* the other operand(s) of merge / interpolate_cubic
    form,    \* "single": others is one point, "list": an iterable of points
    arg,     \* the timedelta argument (query time, offset, new time)
    raw,     \* the raw constructor / message arguments
    res,     \* what the call returned, or the error it raised
    op,      \* the receiver (self) of a MoveOperation method
    ret,     \* what the MoveOperation method returned, or the error it raised
    log      \* the collaborator calls made by plan(), in order

ptvars == <<recv, others, form, raw, res>>

opvars == <<op, ret, log>>

vars == <<pc, call, arg, recv, others, form, raw, res, op, ret, log>>

(***************************************************************************)
(* Bounds of the model.                                                    *)
(***************************************************************************)
MaxTime == 2
MaxVal == 1
MaxOthers == 2
MaxScaling == 2
MaxCoord == 2
MaxPath == 2
MaxDays == 2

(***************************************************************************)
(* Program constants.                                                      *)
(***************************************************************************)
MicrosPerSecond == 1000000
EpsilonInverse == 1000000
SecondsPerDay == 86400
NanosPerMicro == 1000
NanosPerSecond == 1000000000

(***************************************************************************)
(* JointValues (joint_values.py is not among the sources; modelled from    *)
(* the specification and from the way joint_trajectory_point.py uses it).  *)
(***************************************************************************)
NoneJV == [js |-> <<>>, vals |-> <<>>, den |-> 0]

IsNone(jv) == jv.den = 0

JV(js, vals) == [js |-> js, vals |-> vals, den |-> 1]

\* bool(joint_values): None is falsy, a JointValues is truthy iff len() > 0
Truthy(jv) == ~IsNone(jv) /\ Len(jv.vals) > 0

HasName(js, n) == \E i \in DOMAIN js : js[i] = n

\* equality of two JointValues as values (rationals compared exactly)
JVEq(a, b) ==
    /\ IsNone(a) = IsNone(b)
    /\ a.js = b.js
    /\ IF a.den = b.den THEN a.vals = b.vals
       ELSE \A i \in DOMAIN a.vals : a.vals[i] * b.den = b.vals[i] * a.den

RECURSIVE NovelIdx(_, _, _)
NovelIdx(ajs, bjs, i) ==
    IF i > Len(bjs) THEN <<>>
    ELSE (IF HasName(ajs, bjs[i]) THEN <<>> ELSE <<i>>) \o NovelIdx(ajs, bjs, i + 1)

\* JointValues.merge(other): the union of the joint sets, the first operand's
\* order first, the second operand's new names appended; a name defined in
\* both with different values is a conflict.
JVMerge(a, b) ==
    LET av == [i \in DOMAIN a.vals |-> a.vals[i] * b.den]
        bv == [i \in DOMAIN b.vals |-> b.vals[i] * a.den]
        conflict == \E i \in DOMAIN a.js, j \in DOMAIN b.js :
                        a.js[i] = b.js[j] /\ av[i] # bv[j]
        idx == NovelIdx(a.js, b.js, 1)
    IN  IF IsNone(a) \/ IsNone(b) \/ conflict
        THEN [ok |-> FALSE, val |-> NoneJV]
        ELSE [ok |-> TRUE,
              val |-> [js   |-> a.js \o [k \in 1..Len(idx) |-> b.js[idx[k]]],
                       vals |-> IF a.den = b.den
                                THEN a.vals \o [k \in 1..Len(idx) |-> b.vals[idx[k]]]
                                ELSE av \o [k \in 1..Len(idx) |-> bv[idx[k]]],
                       den  |-> IF a.den = b.den THEN a.den ELSE a.den * b.den]]

\* JointValues.merge(list of others): merged one after the other
RECURSIVE JVMergeAll(_, _)
JVMergeAll(a, bs) ==
    IF IsNone(a) THEN [ok |-> FALSE, val |-> NoneJV]
    ELSE IF bs = <<>> THEN [ok |-> TRUE, val |-> a]
    ELSE LET m == JVMerge(a, Head(bs))
         IN  IF m.ok THEN JVMergeAll(m.val, Tail(bs)) ELSE m

(***************************************************************************)
(* JointTrajectoryPoint: results of calls.                                 *)
(***************************************************************************)
Raise(e) ==
    [kind |-> "error", err |-> e, time |-> 0, positions |-> NoneJV,
     velocities |-> NoneJV, accelerations |-> NoneJV, efforts |-> NoneJV]

NoResult ==
    [kind |-> "none", err |-> "", time |-> 0, positions |-> NoneJV,
     velocities |-> NoneJV, accelerations |-> NoneJV, efforts |-> NoneJV]

IsPoint(r) == r.kind = "point"

IsError(r) == r.kind = "error"

\* _init_check(joint_values, name, check) of a point whose positions are pos
init_check(jv, pos, check) ==
    IF ~Truthy(jv) THEN [ok |-> TRUE, err |-> "", val |-> NoneJV]
    ELSE IF check /\ IsNone(pos)
         THEN [ok |-> FALSE, err |-> "AttributeError", val |-> NoneJV]
    ELSE IF check /\ jv.js # pos.js
         THEN [ok |-> FALSE, err |-> "ValueError: joint names or order do not match",
               val |-> NoneJV]
    ELSE [ok |-> TRUE, err |-> "", val |-> jv]

\* JointTrajectoryPoint(time_from_start, positions, velocities, accelerations, efforts)
JointTrajectoryPoint(t, positions, velocities, accelerations, efforts) ==
    LET p == init_check(positions, NoneJV, FALSE)
        v == init_check(velocities, p.val, TRUE)
        a == init_check(accelerations, p.val, TRUE)
        e == init_check(efforts, p.val, TRUE)
    IN  IF ~v.ok THEN Raise(v.err)
        ELSE IF ~a.ok THEN Raise(a.err)
        ELSE IF ~e.ok THEN Raise(e.err)
        ELSE [kind |-> "point", err |-> "", time |-> t, positions |-> p.val,
              velocities |-> v.val, accelerations |-> a.val, efforts |-> e.val]

\* add_time_offset(offset)
add_time_offset(self, offset) ==
    JointTrajectoryPoint(self.time + offset, self.positions, self.velocities,
                         self.accelerations, self.efforts)

\* with_time_from_start(time)
with_time_from_start(self, time) ==
    JointTrajectoryPoint(time, self.positions, self.velocities,
                         self.accelerations, self.efforts)

(***************************************************************************)
(* merge(others)                                                           *)
(***************************************************************************)
\* check_values that lets a field defined in self only pass as undefined
check_values_lenient(a, b) ==
    IF ~Truthy(a)
    THEN (IF Truthy(b) THEN [raise |-> TRUE, val |-> FALSE]
                       ELSE [raise |-> FALSE, val |-> FALSE])
    ELSE (IF ~Truthy(b) THEN [raise |-> FALSE, val |-> FALSE]
                        ELSE [raise |-> FALSE, val |-> TRUE])

\* check_values(a, b, name): raises when exactly one side defines the field
check_values(a, b) ==
    IF ~Truthy(a)
    THEN (IF Truthy(b) THEN [raise |-> TRUE, val |-> FALSE]
                       ELSE [raise |-> FALSE, val |-> FALSE])
    ELSE (IF ~Truthy(b) THEN [raise |-> TRUE, val |-> FALSE]
                        ELSE [raise |-> FALSE, val |-> TRUE])

\* the single-other branch: every field's merge is assigned to `velocites`
merge_single(self, o) ==
    IF self.time # o.time THEN Raise("ValueError: merge conflict, time_from_start")
    ELSE
    LET pm == JVMerge(self.positions, o.positions)
        cv == check_values(self.velocities, o.velocities)
        ca == check_values(self.accelerations, o.accelerations)
        ce == check_values(self.efforts, o.efforts)
        mv == JVMerge(self.velocities, o.velocities)
        ma == JVMerge(self.accelerations, o.accelerations)
        me == JVMerge(self.efforts, o.efforts)
        velocites1 == IF cv.val THEN mv.val ELSE NoneJV
        velocites2 == IF ca.val THEN ma.val ELSE velocites1
        velocites3 == IF ce.val THEN me.val ELSE velocites2
    IN  IF ~pm.ok THEN Raise("ValueError: joint values not mergeable")
        ELSE IF cv.raise THEN Raise("ValueError: merge conflict, velocities")
        ELSE IF cv.val /\ ~mv.ok THEN Raise("ValueError: joint values not mergeable")
        ELSE IF ca.raise THEN Raise("ValueError: merge conflict, accelerations")
        ELSE IF ca.val /\ ~ma.ok THEN Raise("ValueError: joint values not mergeable")
        ELSE IF ce.raise THEN Raise("ValueError: merge conflict, efforts")
        ELSE IF ce.val /\ ~me.ok THEN Raise("ValueError: joint values not mergeable")
        ELSE JointTrajectoryPoint(self.time, pm.val, velocites3, NoneJV, NoneJV)

\* any(map(check_values(a, x.field))) raising, and all(...) of the values
AnyRaise(a, bs) == \E i \in DOMAIN bs : check_values(a, bs[i]).raise

AllTrue(a, bs) == \A i \in DOMAIN bs : check_values(a, bs[i]).val

\* one optional field of the iterable branch: [ok, err, val]
merge_field(a, bs, name) ==
    IF AnyRaise(a, bs)
    THEN [ok |-> FALSE, err |-> "ValueError: merge conflict, " \o name, val |-> NoneJV]
    ELSE IF ~AllTrue(a, bs) THEN [ok |-> TRUE, err |-> "", val |-> NoneJV]
    ELSE IF IsNone(a) THEN [ok |-> FALSE, err |-> "AttributeError", val |-> NoneJV]
    ELSE LET m == JVMergeAll(a, bs)
         IN  IF m.ok THEN [ok |-> TRUE, err |-> "", val |-> m.val]
             ELSE [ok |-> FALSE, err |-> "ValueError: joint values not mergeable",
                   val |-> NoneJV]

\* a time check that fails only when every other differs
TimesDifferAll(self, os) == os # <<>> /\ \A i \in DOMAIN os : os[i].time # self.time

\* any(time_not_equal)
TimesDiffer(self, os) == \E i \in DOMAIN os : os[i].time # self.time

\* the iterable branch
merge_many(self, os) ==
    IF TimesDiffer(self, os)
    THEN Raise("ValueError: time_from_start of others is not equal")
    ELSE
    LET pm == JVMergeAll(self.positions, [i \in DOMAIN os |-> os[i].positions])
        fv == merge_field(self.velocities,
                          [i \in DOMAIN os |-> os[i].velocities], "velocities")
        fa == merge_field(self.accelerations,
                          [i \in DOMAIN os |-> os[i].accelerations], "accelerations")
        fe == merge_field(self.efforts,
                          [i \in DOMAIN os |-> os[i].efforts], "efforts")
    IN  IF ~pm.ok THEN Raise("ValueError: joint values not mergeable")
        ELSE IF ~fv.ok THEN Raise(fv.err)
        ELSE IF ~fa.ok THEN Raise(fa.err)
        ELSE IF ~fe.ok THEN Raise(fe.err)
        ELSE JointTrajectoryPoint(self.time, pm.val, fv.val, fa.val, fe.val)

\* merge(others): others is one point (f = "single") or an iterable of points
merge(self, os, f) ==
    IF f = "single" THEN merge_single(self, os[1]) ELSE merge_many(self, os)

(***************************************************************************)
(* interpolate_cubic(other, time)                                          *)
(***************************************************************************)
Max2(a, b) == IF a >= b THEN a ELSE b

Min2(a, b) == IF a <= b THEN a ELSE b

\* the offset without its lower clamp
UnclampedBelow(t0, t1, time) == Min2(t1 - t0, time - t0)

\* t = min(delta_t, max(time - t0, 0)), in microseconds
ClampedOffset(t0, t1, time) == Min2(t1 - t0, Max2(time - t0, 0))

\* With D = delta_t and T = t in microseconds and M = MicrosPerSecond
\* (dt = D/M, t = T/M):  c = cNum * M / D^2  and  d = dNum * M^2 / D^3.
\* the coefficient with the factor 2 of v0 dropped
cNumSlip(p0, p1, v0, v1, D) == 3 * MicrosPerSecond * (p1 - p0) - (v0 + v1) * D

cNum(p0, p1, v0, v1, D) == 3 * MicrosPerSecond * (p1 - p0) - (2 * v0 + v1) * D

dNum(p0, p1, v0, v1, D) == 2 * MicrosPerSecond * (p0 - p1) + (v0 + v1) * D

\* pos = p0 + v0*t + c*t^2 + d*t^3, as a numerator over M * D^3
PosNum(p0, p1, v0, v1, D, T) ==
    p0 * MicrosPerSecond * D * D * D + v0 * T * D * D * D
    + cNum(p0, p1, v0, v1, D) * T * T * D + dNum(p0, p1, v0, v1, D) * T * T * T

\* vel = v0 + 2*c*t + 3*d*t^2, as a numerator over D^3
VelNum(p0, p1, v0, v1, D, T) ==
    v0 * D * D * D + 2 * cNum(p0, p1, v0, v1, D) * T * D
    + 3 * dNum(p0, p1, v0, v1, D) * T * T

\* the interval check with equal times let through
StrictlyBefore(t1, t0) == t1 < t0

\* the guard of the interval check: t1 <= t0
NotAfter(t1, t0) == t1 <= t0

\* the guard of the velocity check
MissingVelocity(self, other) == IsNone(self.velocities) \/ IsNone(other.velocities)

interpolate_cubic(self, other, time) ==
    IF IsNone(self.positions) \/ IsNone(other.positions) THEN Raise("AttributeError")
    ELSE IF self.positions.js # other.positions.js
    THEN Raise("ValueError: joint sets are not equal")
    ELSE
    LET t0 == self.time
        t1 == other.time
        D  == t1 - t0
        T  == ClampedOffset(t0, t1, time)
        n  == Len(self.positions.vals)
    IN  IF NotAfter(t1, t0) THEN Raise("ValueError: interpolation error")
        ELSE IF D * EpsilonInverse < MicrosPerSecond
        THEN JointTrajectoryPoint(t0 + D, other.positions, other.velocities,
                                  other.accelerations, other.efforts)
        ELSE IF MissingVelocity(self, other) THEN Raise("ValueError")
        ELSE JointTrajectoryPoint(
                 time,
                 [js   |-> self.positions.js,
                  vals |-> [i \in 1..n |->
                               PosNum(self.positions.vals[i], other.positions.vals[i],
                                      self.velocities.vals[i], other.velocities.vals[i],
                                      D, T)],
                  den  |-> MicrosPerSecond * D * D * D],
                 [js   |-> self.positions.js,
                  vals |-> [i \in 1..n |->
                               VelNum(self.positions.vals[i], other.positions.vals[i],
                                      self.velocities.vals[i], other.velocities.vals[i],
                                      D, T)],
                  den  |-> D * D * D],
                 NoneJV, NoneJV)

(***************************************************************************)
(* from_joint_trajectory_point_msg(joint_set, msg)                         *)
(***************************************************************************)
\* JointValues(joint_set, values): one value per joint
JointValuesOf(js, values) ==
    IF Len(values) # Len(js) THEN [ok |-> FALSE, val |-> NoneJV]
    ELSE [ok |-> TRUE, val |-> JV(js, values)]

\* _init_from_msg_helper(joint_set, values): an empty array is an absent field
init_from_msg_helper(js, values) ==
    IF values # <<>> THEN JointValuesOf(js, values) ELSE [ok |-> TRUE, val |-> NoneJV]

\* datetime.timedelta(days, seconds, microseconds) as Python stores it: the
\* normalised triple with 0 <= seconds < 86400 and 0 <= microseconds < 10^6.
\* (A time read from a message is kept as this triple: the number of
\* microseconds of several days does not fit the model's integers.)
TimeDelta(days, seconds, microseconds) ==
    LET s == seconds + (microseconds \div MicrosPerSecond)
    IN  [days |-> days + (s \div SecondsPerDay),
         seconds |-> s % SecondsPerDay,
         microseconds |-> microseconds % MicrosPerSecond]

\* rospy.Duration(secs, nsecs): the canonical pair with 0 <= nsecs < 10^9
Duration(secs, nsecs) ==
    [secs |-> secs + (nsecs \div NanosPerSecond), nsecs |-> nsecs % NanosPerSecond]

\* a conversion from the message that drops the whole days
MsgTimeWithinDay(secs, nsecs) ==
    TimeDelta(0, secs % SecondsPerDay, nsecs \div NanosPerMicro)

\* timedelta(days = secs // 86400, seconds = secs % 86400, microseconds = nsecs // 1000)
MsgTime(secs, nsecs) ==
    TimeDelta(secs \div SecondsPerDay, secs % SecondsPerDay, nsecs \div NanosPerMicro)

\* the values of a JointValues field as the message carries them
MsgValues(jv) == IF Truthy(jv) THEN jv.vals ELSE <<>>

\* to_joint_trajectory_point_msg() of a point whose time_from_start is a
\* TimeDelta; js is the joint set the caller keeps for the way back
to_joint_trajectory_point_msg(self) ==
    LET d == Duration(self.time.days * SecondsPerDay + self.time.seconds,
                      self.time.microseconds * NanosPerMicro)
    IN  [js |-> self.positions.js,
         positions |-> self.positions.vals,
         velocities |-> MsgValues(self.velocities),
         accelerations |-> MsgValues(self.accelerations),
         effort |-> MsgValues(self.efforts),
         secs |-> d.secs, nsecs |-> d.nsecs]

from_joint_trajectory_point_msg(js, m) ==
    LET p == JointValuesOf(js, m.positions)
        v == init_from_msg_helper(js, m.velocities)
        a == init_from_msg_helper(js, m.accelerations)
        e == init_from_msg_helper(js, m.effort)
    IN  IF ~(p.ok /\ v.ok /\ a.ok /\ e.ok) THEN Raise("ValueError: number of values")
        ELSE JointTrajectoryPoint(MsgTime(m.secs, m.nsecs), p.val, v.val, a.val, e.val)

(***************************************************************************)
(* MoveOperation family (motion_operations.py).                            *)
(*                                                                         *)
(* An optional start / seed is [t, v]: t = "none" (Python's None),         *)
(* "joints" (a JointValues, v its values) or "pose" (a Pose, v its id).    *)
(* Scaling factors are integers: 0 and 1 are the ends of [0.0, 1.0].       *)
(***************************************************************************)
NoneV == [t |-> "none", v |-> <<>>]

Joints(v) == [t |-> "joints", v |-> v]

PoseV(k) == [t |-> "pose", v |-> <<k>>]

JointsClasses == {"MoveJointsOperation", "MoveJointsCollisionFreeOperation"}

CartesianClasses == {"MoveCartesianOperation", "MoveCartesianCollisionFreeOperation",
                     "MoveCartesianLinearOperation"}

Classes == JointsClasses \cup CartesianClasses

NoParams ==
    [ok |-> FALSE, velocity_scaling |-> 0, collision_check |-> FALSE, max_deviation |-> 0,
     acceleration_scaling |-> 0, sample_resolution |-> 0, ik_jump_threshold |-> 0]

\* the range [0.0, 1.0] of the scaling factors
InRange(x) == 0 <= x /\ x <= 1

\* MoveGroup._build_plan_parameters (motion_client.py is not among the
\* sources): the plan parameters with the given values, the scaling factors
\* checked against [0.0, 1.0]
build_plan_parameters(velocity_scaling, collision_check, max_deviation, acceleration_scaling, sample_resolution) ==
    IF ~(InRange(velocity_scaling) /\ InRange(acceleration_scaling)) THEN NoParams
    ELSE [ok |-> TRUE, velocity_scaling |-> velocity_scaling,
          collision_check |-> collision_check, max_deviation |-> max_deviation,
          acceleration_scaling |-> acceleration_scaling,
          sample_resolution |-> sample_resolution, ik_jump_threshold |-> 0]

\* EndEffector._build_task_space_plan_parameters (not among the sources)
build_task_space_plan_parameters(velocity_scaling, collision_check, max_deviation, acceleration_scaling, sample_resolution, ik_jump_threshold) ==
    IF ~(InRange(velocity_scaling) /\ InRange(acceleration_scaling)) THEN NoParams
    ELSE [ok |-> TRUE, velocity_scaling |-> velocity_scaling,
          collision_check |-> collision_check, max_deviation |-> max_deviation,
          acceleration_scaling |-> acceleration_scaling,
          sample_resolution |-> sample_resolution,
          ik_jump_threshold |-> ik_jump_threshold]

\* MoveArgs / MoveJointsArgs / MoveCartesianArgs; none: the value is None
NoArgs ==
    [none |-> TRUE, move_group |-> "", start |-> NoneV, target |-> <<>>,
     velocity_scaling |-> 0, acceleration_scaling |-> 0, collision_check |-> FALSE,
     sample_resolution |-> 0, max_deviation |-> 0, end_effector |-> "",
     seed |-> NoneV, ik_jump_threshold |-> 0]

NoOp ==
    [cls |-> "", move_group |-> "", start |-> NoneV, target |-> <<>>,
     velocity_scaling |-> 0, acceleration_scaling |-> 0, plan_parameters |-> NoParams,
     end_effector |-> "", seed |-> NoneV, ik_jump_threshold |-> 0,
     task_space_plan_parameters |-> NoParams]

NoPlan == [trajectory |-> <<>>, parameters |-> NoParams]

\* results of a MoveOperation method: "self" (the receiver itself), "new" (a
\* new instance), "none" (None), "plan" (a Plan), "error" (it raised)
RetSelf(self) == [kind |-> "self", op |-> self, err |-> "", info |-> <<>>, plan |-> NoPlan]

RetNew(o) == [kind |-> "new", op |-> o, err |-> "", info |-> <<>>, plan |-> NoPlan]

RetNone == [kind |-> "none", op |-> NoOp, err |-> "", info |-> <<>>, plan |-> NoPlan]

RetError(e) == [kind |-> "error", op |-> NoOp, err |-> e, info |-> <<>>, plan |-> NoPlan]

\* an error whose message carries values
RetErrorWith(e, info) ==
    [kind |-> "error", op |-> NoOp, err |-> e, info |-> info, plan |-> NoPlan]

RetPlan(t, params) ==
    [kind |-> "plan", op |-> NoOp, err |-> "", info |-> <<>>,
     plan |-> [trajectory |-> t, parameters |-> params]]

NoRet == [kind |-> "", op |-> NoOp, err |-> "", info |-> <<>>, plan |-> NoPlan]

\* MoveOperation.__init__ and, for the Cartesian classes,
\* MoveCartesianOperation.__init__: type(self)(args)
Build(cls, args) ==
    IF args.none THEN RetError("AttributeError")
    ELSE
    LET p == build_plan_parameters(args.velocity_scaling, args.collision_check,
                                   args.max_deviation, args.acceleration_scaling,
                                   args.sample_resolution)
        tp == build_task_space_plan_parameters(args.velocity_scaling,
                  args.collision_check, args.max_deviation, args.acceleration_scaling,
                  args.sample_resolution, args.ik_jump_threshold)
        cart == cls \in CartesianClasses
    IN  IF ~p.ok THEN RetError("ValueError: scaling not in range 0.0, 1.0")
        ELSE RetNew(
              [cls |-> cls, move_group |-> args.move_group, start |-> args.start,
               target |-> args.target, velocity_scaling |-> args.velocity_scaling,
               acceleration_scaling |-> args.acceleration_scaling,
               plan_parameters |-> p,
               end_effector |-> IF cart THEN args.end_effector ELSE "",
               seed |-> IF cart THEN args.seed ELSE NoneV,
               ik_jump_threshold |-> IF cart THEN args.ik_jump_threshold ELSE 0,
               task_space_plan_parameters |-> IF cart THEN tp ELSE NoParams])

\* to_args() of MoveJointsOperation and of MoveCartesianOperation
to_args(self) ==
    [none |-> FALSE, move_group |-> self.move_group, start |-> self.start,
     target |-> self.target, velocity_scaling |-> self.velocity_scaling,
     acceleration_scaling |-> self.acceleration_scaling,
     collision_check |-> self.plan_parameters.collision_check,
     sample_resolution |-> self.plan_parameters.sample_resolution,
     max_deviation |-> self.plan_parameters.max_deviation,
     end_effector |-> self.end_effector, seed |-> self.seed,
     ik_jump_threshold |-> self.ik_jump_threshold]

\* _with_parameters(func), given x = func(self.to_args())
with_parameters(self, x) == Build(self.cls, x)

\* MoveOperation.with_start
base_with_start(self, value) ==
    IF value # self.start
    THEN with_parameters(self, [to_args(self) EXCEPT !.start = value])
    ELSE RetSelf(self)

\* MoveOperation.with_collision_check: no else branch
base_with_collision_check(self, value) ==
    IF value # self.plan_parameters.collision_check
    THEN with_parameters(self, [to_args(self) EXCEPT !.collision_check = value])
    ELSE RetNone

\* a with_velocity_scaling that stores the value in a copy without building
\* the plan parameters anew
lazy_with_velocity_scaling(self, value) ==
    RetNew([self EXCEPT !.velocity_scaling = value,
                        !.plan_parameters.velocity_scaling = value])

\* MoveOperation.with_velocity_scaling
base_with_velocity_scaling(self, value) ==
    IF value # self.velocity_scaling
    THEN with_parameters(self, [to_args(self) EXCEPT !.velocity_scaling = value])
    ELSE RetSelf(self)

\* MoveOperation.with_acceleration_scaling
base_with_acceleration_scaling(self, value) ==
    IF value # self.acceleration_scaling
    THEN with_parameters(self, [to_args(self) EXCEPT !.acceleration_scaling = value])
    ELSE RetSelf(self)

\* MoveOperation.with_sample_resolution
base_with_sample_resolution(self, value) ==
    IF value # self.plan_parameters.sample_resolution
    THEN with_parameters(self, [to_args(self) EXCEPT !.sample_resolution = value])
    ELSE RetSelf(self)

\* MoveOperation.with_max_deviation
base_with_max_deviation(self, value) ==
    IF value # self.plan_parameters.max_deviation
    THEN with_parameters(self, [to_args(self) EXCEPT !.max_deviation = value])
    ELSE RetSelf(self)

\* MoveJointsOperation.with_start: a Pose is a TypeError
joints_with_start(self, value) ==
    IF value.t = "pose" THEN RetError("TypeError")
    ELSE base_with_start(self, value)

\* MoveJointsOperation.with_velocity_scaling
joints_with_velocity_scaling(self, value) == base_with_velocity_scaling(self, value)

\* MoveCartesianOperation.with_start
cartesian_with_start(self, value) == base_with_start(self, value)

\* MoveCartesianOperation.with_velocity_scaling: calls the base class's
\* with_acceleration_scaling
cartesian_with_velocity_scaling(self, value) ==
    base_with_acceleration_scaling(self, value)

\* MoveCartesianOperation.with_seed: f returns nothing
cartesian_with_seed(self, value) ==
    IF value # self.seed THEN with_parameters(self, NoArgs) ELSE RetSelf(self)

\* MoveCartesianOperation.with_ik_jump_threshold: f returns nothing
cartesian_with_ik_jump_threshold(self, value) ==
    IF value # self.task_space_plan_parameters.ik_jump_threshold
    THEN with_parameters(self, NoArgs)
    ELSE RetSelf(self)

\* the methods as dispatched on the receiver's class
with_start(self, value) ==
    IF self.cls \in JointsClasses THEN joints_with_start(self, value)
    ELSE cartesian_with_start(self, value)

with_velocity_scaling(self, value) ==
    IF self.cls \in JointsClasses THEN joints_with_velocity_scaling(self, value)
    ELSE cartesian_with_velocity_scaling(self, value)

with_acceleration_scaling(self, value) == base_with_acceleration_scaling(self, value)

with_collision_check(self, value) == base_with_collision_check(self, value)

with_sample_resolution(self, value) == base_with_sample_resolution(self, value)

with_max_deviation(self, value) == base_with_max_deviation(self, value)

\* an optional argument of with_args: None, or a value
NoneArg == [some |-> FALSE, v |-> 0]

NoneFlag == [some |-> FALSE, v |-> FALSE]

Some(v) == [some |-> TRUE, v |-> v]

\* what f(x) of with_args does to x; `if ik_jump_threshold:` takes 0.0 for
\* an argument left out, and MoveJointsOperation.with_args has no such argument
with_args_f(x, a) ==
    [x EXCEPT
       !.velocity_scaling = IF a.velocity_scaling.some THEN a.velocity_scaling.v ELSE @,
       !.collision_check = IF a.collision_check.some THEN a.collision_check.v ELSE @,
       !.max_deviation = IF a.max_deviation.some THEN a.max_deviation.v ELSE @,
       !.sample_resolution = IF a.sample_resolution.some THEN a.sample_resolution.v ELSE @,
       !.ik_jump_threshold =
           IF a.ik_jump_threshold.some /\ a.ik_jump_threshold.v # 0
           THEN a.ik_jump_threshold.v ELSE @,
       !.acceleration_scaling =
           IF a.acceleration_scaling.some THEN a.acceleration_scaling.v ELSE @]

\* with_args of MoveJointsOperation and of MoveCartesianOperation: f changes
\* x = to_args() in place and returns nothing, so _build is given None
with_args(self, a) ==
    LET x == with_args_f(to_args(self), a)
        returned == NoArgs
    IN  with_parameters(self, returned)

(***************************************************************************)
(* plan().  The collaborators (motion service, end effector, move group)   *)
(* are outside the library: env holds what each of them answers in this    *)
(* call, ok = FALSE meaning that it raises ServiceException.  A joint path *)
(* is a sequence of joint-value vectors, a Cartesian path a sequence of    *)
(* pose ids.  The robot does not move while plan() runs.                   *)
(***************************************************************************)
Resp(val) == [ok |-> TRUE, val |-> val]

Raises == [ok |-> FALSE, val |-> <<>>]

\* one call of a collaborator: its arguments and what it answered
Entry(fn, path, seed, params, resp) ==
    [fn |-> fn, path |-> path, seed |-> seed, params |-> params, resp |-> resp]

Out(r, l) == [ret |-> r, log |-> l]

Abs(x) == IF x < 0 THEN 0 - x ELSE x

SetMax(S) == CHOOSE d \in S : \A e \in S : e <= d

SetMin(S) == CHOOSE d \in S : \A e \in S : d <= e

\* np.max(np.abs(a - b))
MaxAbsDelta(a, b) == SetMax({Abs(a[i] - b[i]) : i \in DOMAIN a})

\* the loop over path[1:]: p_p is path[0] in every iteration.  The position
\* in path of the first point that raises, or 0.
FirstJump(path, threshold) ==
    LET bad == {i \in 2..Len(path) : MaxAbsDelta(path[i], path[1]) > threshold}
    IN  IF bad = {} THEN 0 ELSE SetMin(bad)

\* seed = self._seed or self._move_group.get_current_joint_positions()
ResolveSeed(self, env) ==
    IF self.seed.t = "none"
    THEN [ok |-> env.current.ok, val |-> Joints(env.current.val),
          log |-> <<Entry("get_current_joint_positions", <<>>, NoneV, NoParams,
                          env.current)>>]
    ELSE [ok |-> TRUE, val |-> self.seed, log |-> <<>>]

\* a start that is read from the robot whether or not self._start is set
ResolveStartFromRobot(self, env) ==
    [ok |-> env.current.ok, val |-> Joints(env.current.val),
     log |-> <<Entry("get_current_joint_positions", <<>>, NoneV, NoParams, env.current)>>]

\* start = self._start or self._move_group.get_current_joint_positions()
ResolveStart(self, env) ==
    IF self.start.t = "none"
    THEN [ok |-> env.current.ok, val |-> Joints(env.current.val),
          log |-> <<Entry("get_current_joint_positions", <<>>, NoneV, NoParams,
                          env.current)>>]
    ELSE [ok |-> TRUE, val |-> self.start, log |-> <<>>]

\* a MoveJointsOperation.plan() that calls plan_move_joints a second time
\* when it failed
plan_move_joints_retrying(self, env) ==
    LET st == ResolveStart(self, env)
        e == Entry("plan_move_joints", <<st.val.v>> \o self.target, NoneV,
                   self.plan_parameters, env.pmj)
    IN  IF ~st.ok THEN Out(RetError("ServiceException"), st.log)
        ELSE IF ~env.pmj.ok THEN Out(RetError("ServiceException"), st.log \o <<e, e>>)
        ELSE Out(RetPlan(env.pmj.val, self.plan_parameters), st.log \o <<e>>)

\* MoveJointsOperation.plan
plan_move_joints_operation(self, env) ==
    LET st == ResolveStart(self, env)
        joint_path == <<st.val.v>> \o self.target
        l1 == st.log \o <<Entry("plan_move_joints", joint_path, NoneV,
                                self.plan_parameters, env.pmj)>>
    IN  IF ~st.ok THEN Out(RetError("ServiceException"), st.log)
        ELSE IF ~env.pmj.ok THEN Out(RetError("ServiceException"), l1)
        ELSE Out(RetPlan(env.pmj.val, self.plan_parameters), l1)

\* a collision free plan() that hands the joint path to plan_move_joints as
\* it is
plan_without_collision_free_pass(self, env) == plan_move_joints_operation(self, env)

\* MoveJointsCollisionFreeOperation.plan
plan_move_joints_collision_free_operation(self, env) ==
    LET st == ResolveStart(self, env)
        joint_path == <<st.val.v>> \o self.target
        l1 == st.log \o <<Entry("plan_collision_free_joint_path", joint_path, NoneV,
                                self.plan_parameters, env.cf)>>
        l2 == l1 \o <<Entry("plan_move_joints", env.cf.val, NoneV,
                            self.plan_parameters, env.pmj)>>
    IN  IF ~st.ok THEN Out(RetError("ServiceException"), st.log)
        ELSE IF ~env.cf.ok THEN Out(RetError("ServiceException"), l1)
        ELSE IF ~env.pmj.ok THEN Out(RetError("ServiceException"), l2)
        ELSE Out(RetPlan(env.pmj.val, self.plan_parameters), l2)

\* the part the two Cartesian plan() methods share: seed, start, inverse
\* kinematics of the start and of the target, and the jump check.
\* [ok, ret, log, path]
cartesian_joint_path(self, env) ==
    LET sd == ResolveSeed(self, env)
        st == ResolveStart(self, env)
        l1 == sd.log \o st.log
        cc == self.plan_parameters.collision_check
        isPose == st.val.t = "pose"
        l2 == IF isPose
              THEN l1 \o <<Entry("inverse_kinematics", <<st.val.v[1]>>, sd.val,
                                 [NoParams EXCEPT !.collision_check = cc], env.ik)>>
              ELSE l1
        start == IF isPose THEN env.ik.val ELSE st.val.v
        l3 == l2 \o <<Entry("inverse_kinematics_many", self.target, sd.val,
                            [NoParams EXCEPT !.collision_check = cc], env.ik_many)>>
        path == <<start>> \o env.ik_many.val
        ik_jump_threshold == self.task_space_plan_parameters.ik_jump_threshold
        j == FirstJump(path, ik_jump_threshold)
    IN  IF ~sd.ok
        THEN [ok |-> FALSE, ret |-> RetError("ServiceException"), log |-> sd.log,
              path |-> <<>>]
        ELSE IF ~st.ok
        THEN [ok |-> FALSE, ret |-> RetError("ServiceException"), log |-> l1, path |-> <<>>]
        ELSE IF isPose /\ ~env.ik.ok
        THEN [ok |-> FALSE, ret |-> RetError("ServiceException"), log |-> l2, path |-> <<>>]
        ELSE IF ~env.ik_many.ok
        THEN [ok |-> FALSE, ret |-> RetError("ServiceException"), log |-> l3, path |-> <<>>]
        ELSE IF j # 0
        THEN [ok |-> FALSE,
              ret |-> RetErrorWith("RuntimeError: ik jump threshold",
                                   <<MaxAbsDelta(path[j], path[1]), j - 2,
                                     ik_jump_threshold>>),
              log |-> l3, path |-> path]
        ELSE [ok |-> TRUE, ret |-> NoRet, log |-> l3, path |-> path]

\* MoveCartesianOperation.plan
plan_move_cartesian_operation(self, env) ==
    LET jp == cartesian_joint_path(self, env)
        l4 == jp.log \o <<Entry("plan_move_joints", jp.path, NoneV,
                                self.plan_parameters, env.pmj)>>
    IN  IF ~jp.ok THEN Out(jp.ret, jp.log)
        ELSE IF ~env.pmj.ok THEN Out(RetError("ServiceException"), l4)
        ELSE Out(RetPlan(env.pmj.val, self.plan_parameters), l4)

\* MoveCartesianCollisionFreeOperation.plan
plan_move_cartesian_collision_free_operation(self, env) ==
    LET jp == cartesian_joint_path(self, env)
        l4 == jp.log \o <<Entry("plan_collision_free_joint_path", jp.path, NoneV,
                                self.plan_parameters, env.cf)>>
        l5 == l4 \o <<Entry("plan_move_joints", env.cf.val, NoneV,
                            self.plan_parameters, env.pmj)>>
    IN  IF ~jp.ok THEN Out(jp.ret, jp.log)
        ELSE IF ~env.cf.ok THEN Out(RetError("ServiceException"), l4)
        ELSE IF ~env.pmj.ok THEN Out(RetError("ServiceException"), l5)
        ELSE Out(RetPlan(env.pmj.val, self.plan_parameters), l5)

\* a linear plan() that goes through inverse kinematics and the jump check
plan_linear_through_joint_path(self, env) == plan_move_cartesian_operation(self, env)

\* MoveCartesianLinearOperation.plan
plan_move_cartesian_linear_operation(self, env) ==
    LET sd == ResolveSeed(self, env)
        st == IF self.start.t = "none"
              THEN [ok |-> env.pose.ok, val |-> [t |-> "pose", v |-> env.pose.val],
                    log |-> <<Entry("get_current_pose", <<>>, NoneV, NoParams,
                                    env.pose)>>]
              ELSE [ok |-> TRUE, val |-> self.start, log |-> <<>>]
        path == st.val.v \o self.target
        l1 == sd.log \o st.log
              \o <<Entry("plan_move_pose_linear", path, sd.val,
                         self.task_space_plan_parameters, env.lin)>>
    IN  IF ~sd.ok THEN Out(RetError("ServiceException"), sd.log)
        ELSE IF ~st.ok THEN Out(RetError("ServiceException"), sd.log \o st.log)
        ELSE IF ~env.lin.ok THEN Out(RetError("ServiceException"), l1)
        ELSE Out(RetPlan(env.lin.val, self.plan_parameters), l1)

\* what execute_async and execute_supervised return: the task of the one
\* execute_joint_trajectory call (err: what awaiting it raises), the stepped
\* motion client
RetTask(p, e) == [kind |-> "task", op |-> NoOp, err |-> e, info |-> <<>>, plan |-> p]

RetClient(p) == [kind |-> "client", op |-> NoOp, err |-> "", info |-> <<>>, plan |-> p]

\* Plan.execute_async
execute_async(p, resp) ==
    LET l == <<Entry("execute_joint_trajectory", p.trajectory, NoneV,
                     [NoParams EXCEPT !.collision_check = p.parameters.collision_check],
                     resp)>>
    IN  Out(RetTask(p, IF resp.ok THEN "" ELSE "ServiceException"), l)

\* Plan.execute_supervised: velocity scaling 1.0
execute_supervised(p, resp) ==
    LET l == <<Entry("execute_joint_trajectory_supervised", p.trajectory, NoneV,
                     [NoParams EXCEPT !.velocity_scaling = 1,
                                      !.collision_check = p.parameters.collision_check],
                     resp)>>
    IN  IF resp.ok THEN Out(RetClient(p), l) ELSE Out(RetError("ServiceException"), l)

\* plan(), as dispatched on the receiver's class: [ret, log]
plan_result(self, env) ==
    CASE self.cls = "MoveJointsOperation" -> plan_move_joints_operation(self, env)
      [] self.cls = "MoveJointsCollisionFreeOperation" ->
            plan_move_joints_collision_free_operation(self, env)
      [] self.cls = "MoveCartesianOperation" -> plan_move_cartesian_operation(self, env)
      [] self.cls = "MoveCartesianCollisionFreeOperation" ->
            plan_move_cartesian_collision_free_operation(self, env)
      [] self.cls = "MoveCartesianLinearOperation" ->
            plan_move_cartesian_linear_operation(self, env)

\* a plan() that keeps the start it resolved in self._start
plan_caching_start(self, env) ==
    LET out == plan_result(self, env)
        lin == self.cls = "MoveCartesianLinearOperation"
        cached == IF lin THEN [t |-> "pose", v |-> env.pose.val]
                  ELSE Joints(env.current.val)
        asked == IF lin THEN env.pose.ok ELSE env.current.ok
    IN  [ret |-> out.ret, log |-> out.log,
         self |-> IF self.start.t = "none" /\ asked THEN [self EXCEPT !.start = cached]
                  ELSE self]

\* plan() and the receiver after it: seed, start, path and t are locals of
\* plan(), no attribute of self is assigned
plan(self, env) ==
    LET out == plan_result(self, env)
    IN  [ret |-> out.ret, log |-> out.log, self |-> self]

(***************************************************************************)
(* Inputs of the JointTrajectoryPoint calls.  Every point is built by the  *)
(* constructor.                                                            *)
(***************************************************************************)
JA == <<"a">>

JB == <<"b">>

JAB == <<"a", "b">>

JBA == <<"b", "a">>

\* the joint of the i-th element of an iterable of others
OtherNames == <<"b", "c", "d", "e">>

Masks == SUBSET {"v", "a", "e"}

FieldCode(f) == CASE f = "p" -> 0 [] f = "v" -> 1 [] f = "a" -> 2 [] f = "e" -> 3

\* operand k's values of field f: distinct per operand and per field
MergeJV(k, js, f) == JV(js, [i \in DOMAIN js |-> 10 * k + FieldCode(f)])

MergePoint(k, js, t, mask) ==
    JointTrajectoryPoint(t, MergeJV(k, js, "p"),
                         IF "v" \in mask THEN MergeJV(k, js, "v") ELSE NoneJV,
                         IF "a" \in mask THEN MergeJV(k, js, "a") ELSE NoneJV,
                         IF "e" \in mask THEN MergeJV(k, js, "e") ELSE NoneJV)

MergeSelves == {MergePoint(0, JA, t, m) : t \in 0..MaxTime, m \in Masks}

\* the single other: joint "a" with self's values, joint "a" with other
\* values, or the disjoint joint "b"
MergeSingles(self) ==
    {MergePoint(kj[1], kj[2], self.time + dt, m) :
        kj \in {<<0, JA>>, <<1, JA>>, <<1, JB>>}, dt \in {0, 1}, m \in Masks}

MergeElems(self, i) ==
    {MergePoint(i, <<OtherNames[i]>>, self.time + dt, m) : dt \in {0, 1}, m \in Masks}

RECURSIVE MergeLists(_, _)
MergeLists(self, n) ==
    IF n = 0 THEN {<<>>}
    ELSE {Append(l, x) : l \in MergeLists(self, n - 1), x \in MergeElems(self, n)}

\* an endpoint of an interpolation: joint i has position p + i - 1 and,
\* when it has velocities, velocity v - i + 1
InterpPoint(js, t, full, p, v) ==
    JointTrajectoryPoint(t, JV(js, [i \in DOMAIN js |-> p + i - 1]),
                         IF full THEN JV(js, [i \in DOMAIN js |-> v - i + 1]) ELSE NoneJV,
                         IF full THEN JV(js, [i \in DOMAIN js |-> 2]) ELSE NoneJV,
                         IF full THEN JV(js, [i \in DOMAIN js |-> 3]) ELSE NoneJV)

InterpPoints(jss) ==
    {InterpPoint(js, t, full, p, v) :
        js \in jss, t \in 0..MaxTime, full \in BOOLEAN, p \in 0..MaxVal, v \in 0..MaxVal}

RawJVs == {NoneJV, JV(<<>>, <<>>), JV(JA, <<1>>), JV(JB, <<1>>),
           JV(JAB, <<1, 2>>), JV(JBA, <<1, 2>>)}

RawArgs ==
    [positions : RawJVs \ {JV(JB, <<1>>), JV(JBA, <<1, 2>>)},
     velocities : RawJVs,
     accelerations : {NoneJV, JV(JA, <<1>>), JV(JAB, <<1, 2>>)},
     efforts : {NoneJV, JV(JA, <<1>>), JV(JAB, <<1, 2>>)}]

RawMsgs ==
    [js : {<<>>, JA, JAB},
     positions : {<<>>, <<1>>, <<1, 2>>},
     velocities : {<<>>, <<1>>, <<1, 2>>},
     accelerations : {<<>>, <<3>>},
     effort : {<<>>, <<4>>},
     secs : {0, 1},
     nsecs : {0, 1500}]

NoRaw == [positions |-> NoneJV]

\* durations: zero, sub-second, end of a day, several days, negative
TimeDeltas ==
    {TimeDelta(d, sec, us) : d \in (0 - 1)..MaxDays, sec \in {0, 1, SecondsPerDay - 1},
                             us \in {0, 1, MicrosPerSecond - 1}}

MsgPoints ==
    {JointTrajectoryPoint(t, pv[1], pv[2], pv[3], pv[3]) :
        t \in TimeDeltas,
        pv \in {<<JV(JA, <<1>>), NoneJV, NoneJV>>,
                <<JV(JA, <<1>>), JV(JA, <<2>>), NoneJV>>,
                <<JV(JAB, <<1, 2>>), JV(JAB, <<0, 1>>), JV(JAB, <<1, 1>>)>>}}

(***************************************************************************)
(* __eq__ / __ne__                                                         *)
(***************************************************************************)
\* the attributes a JointTrajectoryPoint answers to
PointAttributes ==
    {"joint_set", "time_from_start", "positions", "velocities", "accelerations",
     "efforts"}

\* True / False as results
Bool(b) == [NoResult EXCEPT !.kind = IF b THEN "true" ELSE "false"]

\* __eq__(other): foreign, other is no JointTrajectoryPoint; same, other is
\* self (id(other) == id(self))
point_eq(self, other, foreign, same) ==
    IF foreign THEN Bool(FALSE)
    ELSE IF same THEN Bool(TRUE)
    ELSE IF other.time # self.time THEN Bool(FALSE)
    ELSE IF ~JVEq(other.positions, self.positions) THEN Bool(FALSE)
    ELSE IF "velocites" \notin PointAttributes
    THEN Raise("AttributeError: 'JointTrajectoryPoint' object has no attribute 'velocites'")
    ELSE IF ~JVEq(other.velocities, self.velocities) THEN Bool(FALSE)
    ELSE IF ~JVEq(other.accelerations, self.accelerations) THEN Bool(FALSE)
    ELSE IF ~JVEq(other.efforts, self.efforts) THEN Bool(FALSE)
    ELSE Bool(TRUE)

\* __ne__(other): not self.__eq__(other)
point_ne(self, other, foreign, same) ==
    LET e == point_eq(self, other, foreign, same)
    IN  IF IsError(e) THEN e ELSE Bool(e.kind = "false")

\* the points compared: two times, two positions, each optional field absent
\* or present
EqPoints ==
    {JointTrajectoryPoint(t, JV(JA, <<x>>), v, a, e) :
        t \in 0..1, x \in 0..1, v \in {NoneJV, JV(JA, <<1>>)},
        a \in {NoneJV, JV(JA, <<2>>)}, e \in {NoneJV, JV(JA, <<3>>)}}

\* form "single": other is a point, arg = 1 when it is self itself; form
\* "foreign": other is no JointTrajectoryPoint
InitEq ==
    /\ call \in {"__eq__", "__ne__"}
    /\ recv \in EqPoints
    /\ \/ form = "single" /\ arg = 0 /\ others \in {<<o>> : o \in EqPoints}
       \/ form = "single" /\ arg = 1 /\ others = <<recv>>
       \/ form = "foreign" /\ arg = 0 /\ others = <<NoResult>>
    /\ raw = NoRaw

(***************************************************************************)
(* The JointTrajectoryPoint specification: Init draws the inputs of one    *)
(* call, the actions make the call.                                        *)
(***************************************************************************)
InitMerge ==
    /\ call = "merge"
    /\ recv \in MergeSelves
    /\ \/ form = "single" /\ others \in {<<o>> : o \in MergeSingles(recv)}
       \/ form = "list" /\ \E n \in 0..MaxOthers : others \in MergeLists(recv, n)
    /\ arg = 0
    /\ raw = NoRaw

InitInterpolate ==
    /\ call = "interpolate_cubic"
    /\ recv \in InterpPoints({JA, JAB})
    /\ form = "single"
    /\ others \in {<<o>> : o \in InterpPoints({recv.positions.js, JAB})}
    /\ arg \in (0 - 1)..(MaxTime + 1)
    /\ raw = NoRaw

InitShift ==
    /\ call \in {"add_time_offset", "with_time_from_start"}
    /\ recv \in MergeSelves
    /\ form = "list"
    /\ others = <<>>
    /\ arg \in (0 - 1)..MaxTime
    /\ raw = NoRaw

InitConstruct ==
    /\ call = "__init__"
    /\ recv = NoResult
    /\ form = "list"
    /\ others = <<>>
    /\ arg \in 0..MaxTime
    /\ raw \in RawArgs

InitFromMsg ==
    /\ call = "from_joint_trajectory_point_msg"
    /\ recv = NoResult
    /\ form = "list"
    /\ others = <<>>
    /\ arg = 0
    /\ raw \in RawMsgs

InitToMsg ==
    /\ call = "to_joint_trajectory_point_msg"
    /\ recv \in MsgPoints
    /\ form = "list"
    /\ others = <<>>
    /\ arg = 0
    /\ raw = NoRaw

PointInit ==
    /\ pc = "ready"
    /\ res = NoResult
    /\ op = NoOp /\ ret = NoRet /\ log = <<>>
    /\ \/ InitMerge
       \/ InitInterpolate
       \/ InitShift
       \/ InitConstruct
       \/ InitFromMsg
       \/ InitToMsg
       \/ InitEq

Return(r) ==
    /\ res' = r
    /\ pc' = "done"
    /\ UNCHANGED <<call, recv, others, form, arg, raw>>
    /\ UNCHANGED opvars

Merge ==
    /\ pc = "ready" /\ call = "merge"
    /\ Return(merge(recv, others, form))

InterpolateCubic ==
    /\ pc = "ready" /\ call = "interpolate_cubic"
    /\ Return(interpolate_cubic(recv, others[1], arg))

Eq ==
    /\ pc = "ready" /\ call = "__eq__"
    /\ Return(point_eq(recv, others[1], form = "foreign", arg = 1))

Ne ==
    /\ pc = "ready" /\ call = "__ne__"
    /\ Return(point_ne(recv, others[1], form = "foreign", arg = 1))

AddTimeOffset ==
    /\ pc = "ready" /\ call = "add_time_offset"
    /\ Return(add_time_offset(recv, arg))

WithTimeFromStart ==
    /\ pc = "ready" /\ call = "with_time_from_start"
    /\ Return(with_time_from_start(recv, arg))

Construct ==
    /\ pc = "ready" /\ call = "__init__"
    /\ Return(JointTrajectoryPoint(arg, raw.positions, raw.velocities,
                                   raw.accelerations, raw.efforts))

FromMsg ==
    /\ pc = "ready" /\ call = "from_joint_trajectory_point_msg"
    /\ Return(from_joint_trajectory_point_msg(raw.js, raw))

\* to_joint_trajectory_point_msg(); the message is then handed to
\* from_joint_trajectory_point_msg together with the point's joint set
ToMsg ==
    /\ pc = "ready" /\ call = "to_joint_trajectory_point_msg"
    /\ raw' = to_joint_trajectory_point_msg(recv)
    /\ call' = "from_joint_trajectory_point_msg"
    /\ UNCHANGED <<pc, recv, others, form, arg, res>>
    /\ UNCHANGED opvars

PointNext ==
    \/ ToMsg
    \/ Merge
    \/ InterpolateCubic
    \/ AddTimeOffset
    \/ WithTimeFromStart
    \/ Construct
    \/ FromMsg
    \/ Eq
    \/ Ne

PointSpec == PointInit /\ [][PointNext]_vars

(***************************************************************************)
(* Properties of JointTrajectoryPoint, checked under PointSpec.            *)
(***************************************************************************)
Done(c) == pc = "done" /\ call = c

Operands == {recv} \cup {others[i] : i \in DOMAIN others}

OptFields == {"velocities", "accelerations", "efforts"}

AllCarry(f) == \A x \in Operands : ~IsNone(x[f])

\* the merge of field f over self and the others, in order
MergedField(f) == JVMergeAll(recv[f], [i \in DOMAIN others |-> others[i][f]]).val

MergeConflictErrors ==
    {"ValueError: merge conflict, velocities",
     "ValueError: merge conflict, accelerations",
     "ValueError: merge conflict, efforts"}

PresenceDiffers(f) == \E x, y \in Operands : IsNone(x[f]) # IsNone(y[f])

SameTimes == \A x \in Operands : x.time = recv.time

WellFormed(p) ==
    /\ ~IsNone(p.positions)
    /\ \A f \in OptFields : ~IsNone(p[f]) => p[f].js = p.positions.js

\* C3: when self and every other operand carry velocities, accelerations and
\* efforts, the merged point's velocities, accelerations and efforts are the
\* merges of the operands' velocities, accelerations and efforts, in the
\* single-other form and in the iterable form.
C3_MergeAccumulatesEachField ==
    (Done("merge") /\ IsPoint(res) /\ \A f \in OptFields : AllCarry(f))
        => \A f \in OptFields : JVEq(res[f], MergedField(f))

\* C4: merge fails, returning no point, whenever one operand defines one of
\* velocities, accelerations, efforts and another operand omits it, in both
\* forms and for the operand at any position; with equal times and mergeable
\* positions the error is the merge-conflict error.
C4_MergePresenceConflictFails ==
    (Done("merge") /\ \E f \in OptFields : PresenceDiffers(f))
        => /\ IsError(res)
           /\ (SameTimes /\ MergedField("positions") # NoneJV)
                 => res.err \in MergeConflictErrors

C4_Witness ==
    /\ Done("merge") /\ form = "list" /\ Len(others) = 2
    /\ SameTimes
    /\ \A f \in OptFields : IsNone(others[1][f]) = IsNone(recv[f])
    /\ ~IsNone(recv.velocities) /\ IsNone(others[2].velocities)
    /\ res.err \in MergeConflictErrors

\* C5: merge fails, returning no point, whenever the time_from_start of the
\* other point or of at least one element of others differs from that of
\* self; when merge succeeds the result carries the time_from_start of self
\* and of every operand.
C5_MergeTimeMismatchFails ==
    Done("merge")
        => /\ ~SameTimes => IsError(res)
           /\ IsPoint(res) => (res.time = recv.time /\ SameTimes)

C5_Witness ==
    /\ Done("merge") /\ form = "list" /\ Len(others) = 2
    /\ others[1].time = recv.time /\ others[2].time # recv.time
    /\ \A f \in OptFields : ~PresenceDiffers(f)
    /\ IsError(res)

InterpolateOk ==
    /\ recv.positions.js = others[1].positions.js
    /\ others[1].time > recv.time
    /\ ~IsNone(recv.velocities) /\ ~IsNone(others[1].velocities)

\* C6: for two points over the same joint set, both with velocities and the
\* second later than the first, interpolating at the first point's time
\* yields its positions and velocities for every joint, and interpolating at
\* the second point's time yields the second point's.
C6_InterpolateReproducesEndpoints ==
    (Done("interpolate_cubic") /\ InterpolateOk)
        => /\ arg = recv.time =>
                /\ IsPoint(res)
                /\ JVEq(res.positions, recv.positions)
                /\ JVEq(res.velocities, recv.velocities)
           /\ arg = others[1].time =>
                /\ IsPoint(res)
                /\ JVEq(res.positions, others[1].positions)
                /\ JVEq(res.velocities, others[1].velocities)

C6_Witness ==
    /\ Done("interpolate_cubic") /\ InterpolateOk
    /\ arg = others[1].time /\ others[1].time > recv.time + 1
    /\ Len(recv.positions.js) = 2
    /\ recv.positions # others[1].positions
    /\ recv.velocities # others[1].velocities
    /\ IsPoint(res)
    /\ JVEq(res.positions, others[1].positions)
    /\ JVEq(res.velocities, others[1].velocities)

\* C7: the query time is clamped to [t0, t1]: a query before self's time
\* yields the positions and velocities of the query at self's time, a query
\* after other's time those of the query at other's time.
C7_InterpolateClampsQueryTime ==
    (Done("interpolate_cubic") /\ InterpolateOk)
        => /\ IsPoint(res)
           /\ arg < recv.time =>
                LET r0 == interpolate_cubic(recv, others[1], recv.time)
                IN  /\ JVEq(res.positions, r0.positions)
                    /\ JVEq(res.velocities, r0.velocities)
           /\ arg > others[1].time =>
                LET r1 == interpolate_cubic(recv, others[1], others[1].time)
                IN  /\ JVEq(res.positions, r1.positions)
                    /\ JVEq(res.velocities, r1.velocities)

C7_Witness ==
    /\ Done("interpolate_cubic") /\ InterpolateOk
    /\ arg < recv.time
    /\ recv.velocities.vals[1] # 0
    /\ IsPoint(res)
    /\ JVEq(res.positions, recv.positions)

\* C8: interpolate_cubic fails and returns no point when the joint sets
\* differ, when other's time is not strictly greater than self's (equal
\* times included), or when either endpoint has no velocities.
C8_InterpolatePreconditionsFail ==
    (Done("interpolate_cubic") /\ ~InterpolateOk) => IsError(res)

C8_Witness ==
    /\ Done("interpolate_cubic")
    /\ recv.positions.js = others[1].positions.js
    /\ others[1].time = recv.time
    /\ ~IsNone(recv.velocities) /\ ~IsNone(others[1].velocities)
    /\ IsError(res)

\* C10: every point that the constructor, from_joint_trajectory_point_msg,
\* add_time_offset, with_time_from_start, merge or interpolate_cubic returns
\* has positions, and each of its velocities, accelerations and efforts that
\* is present is defined over exactly the joint set of the positions.
C10_ReturnedPointsWellFormed ==
    (pc = "done" /\ IsPoint(res)) => WellFormed(res)


\* C11: a point converted to the message and back has the time_from_start it
\* had, and the message carries it as whole seconds plus nanoseconds that are
\* a multiple of 1000 in [0, 10^9).
C11_MsgRoundTripKeepsTime ==
    (Done("from_joint_trajectory_point_msg") /\ IsPoint(recv))
    => /\ IsPoint(res)
       /\ res.time = recv.time
       /\ raw.nsecs % NanosPerMicro = 0
       /\ 0 <= raw.nsecs /\ raw.nsecs < NanosPerSecond

\* a negative duration with a sub-second part has made the round trip
C11_Witness ==
    /\ Done("from_joint_trajectory_point_msg") /\ IsPoint(recv) /\ IsPoint(res)
    /\ recv.time.days < 0 /\ recv.time.microseconds > 0 /\ recv.time.seconds > 0

(***************************************************************************)
(* The builder methods of the move operations.  BuildInit draws one        *)
(* constructed operation; each action calls one method on it, and Adopt    *)
(* goes on with the operation the call returned.                           *)
(***************************************************************************)
PointIdle ==
    /\ recv = NoResult /\ others = <<>> /\ form = "list"
    /\ raw = NoRaw /\ res = NoResult

ExplicitStart == <<1, 0>>

ExplicitSeed == <<0, 0>>

StartValues(cls) ==
    CASE cls \in JointsClasses -> {NoneV, Joints(ExplicitStart)}
      [] cls = "MoveCartesianLinearOperation" -> {NoneV, PoseV(0)}
      [] OTHER -> {NoneV, Joints(ExplicitStart), PoseV(0)}

SeedValues(cls) ==
    IF cls \in CartesianClasses THEN {NoneV, Joints(ExplicitSeed)} ELSE {NoneV}

\* the arguments move_joints / move_cartesian hand to the constructors
MoveArgs(cls, targets, scalings, resolutions, thresholds) ==
    [none : {FALSE}, move_group : {"move_group"}, start : StartValues(cls),
     target : targets, velocity_scaling : scalings, acceleration_scaling : scalings,
     collision_check : BOOLEAN, sample_resolution : resolutions,
     max_deviation : resolutions,
     end_effector : IF cls \in CartesianClasses THEN {"end_effector"} ELSE {""},
     seed : SeedValues(cls),
     ik_jump_threshold : IF cls \in CartesianClasses THEN thresholds ELSE {0}]

BuildTarget(cls) == IF cls \in CartesianClasses THEN <<1>> ELSE <<(<<0, 0>>)>>

BuildOps(cls) ==
    {Build(cls, a).op : a \in MoveArgs(cls, {BuildTarget(cls)}, 0..1, 0..MaxVal, 0..MaxVal)}

ScalingArgs == (0 - 1)..MaxScaling

BuildInit ==
    /\ pc = "ready" /\ call = "" /\ arg = 0
    /\ PointIdle
    /\ \E cls \in Classes : op \in BuildOps(cls)
    /\ ret = NoRet
    /\ log = <<>>

Called(c, a, r) ==
    /\ pc = "ready"
    /\ pc' = "done" /\ call' = c /\ arg' = a /\ ret' = r
    /\ UNCHANGED <<op, log>>
    /\ UNCHANGED ptvars

WithStart == \E v \in StartValues(op.cls) : Called("with_start", v, with_start(op, v))

WithCollisionCheck ==
    \E v \in BOOLEAN : Called("with_collision_check", v, with_collision_check(op, v))

WithVelocityScaling ==
    \E v \in ScalingArgs : Called("with_velocity_scaling", v, with_velocity_scaling(op, v))

WithAccelerationScaling ==
    \E v \in ScalingArgs :
        Called("with_acceleration_scaling", v, with_acceleration_scaling(op, v))

WithSampleResolution ==
    \E v \in 0..MaxVal : Called("with_sample_resolution", v, with_sample_resolution(op, v))

WithMaxDeviation ==
    \E v \in 0..MaxVal : Called("with_max_deviation", v, with_max_deviation(op, v))

WithSeed ==
    /\ op.cls \in CartesianClasses
    /\ \E v \in SeedValues(op.cls) : Called("with_seed", v, cartesian_with_seed(op, v))

WithIkJumpThreshold ==
    /\ op.cls \in CartesianClasses
    /\ \E v \in 0..MaxVal :
          Called("with_ik_jump_threshold", v, cartesian_with_ik_jump_threshold(op, v))

\* the arguments of with_args: each left out or given; 0 stands for 0.0
WithArgsInputs(cls) ==
    [velocity_scaling : {NoneArg, Some(1)},
     collision_check : {NoneFlag, Some(TRUE)},
     max_deviation : {NoneArg, Some(0)},
     sample_resolution : {NoneArg, Some(MaxVal)},
     acceleration_scaling : {NoneArg, Some(0)},
     ik_jump_threshold : IF cls \in CartesianClasses
                         THEN {NoneArg, Some(0), Some(MaxVal)} ELSE {NoneArg}]

WithArgs == \E a \in WithArgsInputs(op.cls) : Called("with_args", a, with_args(op, a))

\* the caller goes on with the instance it got back
Adopt ==
    /\ pc = "done" /\ ret.kind \in {"new", "self"}
    /\ op' = ret.op
    /\ pc' = "ready" /\ call' = "" /\ arg' = 0 /\ ret' = NoRet
    /\ UNCHANGED log
    /\ UNCHANGED ptvars

BuildNext ==
    \/ WithStart
    \/ WithCollisionCheck
    \/ WithVelocityScaling
    \/ WithAccelerationScaling
    \/ WithSampleResolution
    \/ WithMaxDeviation
    \/ WithSeed
    \/ WithIkJumpThreshold
    \/ WithArgs
    \/ Adopt

BuildSpec == BuildInit /\ [][BuildNext]_vars

(***************************************************************************)
(* plan().  PlanInit draws the operation, the action draws what the        *)
(* collaborators answer.                                                   *)
(***************************************************************************)
Vectors == {<<x, y>> : x \in 0..MaxCoord, y \in 0..1}

Currents == {<<0, 0>>, <<1, 1>>}

StartSolutions == {<<1, 0>>, <<0, 1>>}

\* a path no inverse kinematics answer of the model equals
CollisionFreePath == <<(<<0, 0>>), (<<MaxCoord + 1, 0>>)>>

CurrentPose == 9

JointPaths(n) == [1..n -> Vectors]

PlanTargets(cls) ==
    IF cls \in CartesianClasses
    THEN {[i \in 1..n |-> i] : n \in 1..MaxPath}
    ELSE UNION {JointPaths(n) : n \in 1..MaxPath}

PlanOps(cls) ==
    {Build(cls, a).op : a \in MoveArgs(cls, PlanTargets(cls), {1}, {0}, 0..MaxCoord)}

\* what the collaborators may answer to the calls of self.plan()
Envs(self) ==
    LET cart == self.cls \in CartesianClasses
        lin == self.cls = "MoveCartesianLinearOperation"
        free == self.cls \in {"MoveJointsCollisionFreeOperation",
                              "MoveCartesianCollisionFreeOperation"}
        asks == (~lin /\ self.start.t = "none") \/ (cart /\ self.seed.t = "none")
    IN  [current : IF asks THEN {Raises} \cup {Resp(v) : v \in Currents} ELSE {Raises},
         pose : IF lin /\ self.start.t = "none"
                THEN {Raises, Resp(<<CurrentPose>>)} ELSE {Raises},
         ik : IF cart /\ ~lin /\ self.start.t = "pose"
              THEN {Raises} \cup {Resp(v) : v \in StartSolutions} ELSE {Raises},
         ik_many : IF cart /\ ~lin
                   THEN {Raises} \cup {Resp(p) : p \in JointPaths(Len(self.target))}
                   ELSE {Raises},
         cf : IF free THEN {Raises, Resp(CollisionFreePath)} ELSE {Raises},
         pmj : IF ~lin THEN {Raises, Resp(<<1>>)} ELSE {Raises},
         lin : IF lin THEN {Raises, Resp(<<2>>)} ELSE {Raises}]

PlanInit ==
    /\ pc = "ready" /\ call = "plan" /\ arg = 0
    /\ PointIdle
    /\ \E cls \in Classes : op \in PlanOps(cls)
    /\ ret = NoRet
    /\ log = <<>>

PlanCall(cls) ==
    /\ pc = "ready" /\ call = "plan" /\ op.cls = cls
    /\ \E env \in Envs(op) :
          LET out == plan(op, env)
          IN  ret' = out.ret /\ log' = out.log /\ op' = out.self
    /\ pc' = "done"
    /\ UNCHANGED <<call, arg>>
    /\ UNCHANGED ptvars

\* what the collaborators of env answer to a call of fn
AnswerOf(env, fn) ==
    CASE fn = "get_current_joint_positions" -> env.current
      [] fn = "get_current_pose" -> env.pose
      [] fn = "inverse_kinematics" -> env.ik
      [] fn = "inverse_kinematics_many" -> env.ik_many
      [] fn = "plan_collision_free_joint_path" -> env.cf
      [] fn = "plan_move_joints" -> env.pmj
      [] fn = "plan_move_pose_linear" -> env.lin

\* the collaborators answer as they did in the calls logged
SameCollaboratorState(env, l) == \A i \in DOMAIN l : AnswerOf(env, l[i].fn) = l[i].resp

\* plan() once more on the same operation, the collaborators unchanged; the
\* calls of the second run are appended to those of the first
PlanAgain ==
    /\ pc = "done" /\ call = "plan"
    /\ \E env \in Envs(op) :
          /\ SameCollaboratorState(env, log)
          /\ LET out == plan(op, env)
             IN  ret' = out.ret /\ log' = log \o out.log /\ op' = out.self
    /\ pc' = "again"
    /\ UNCHANGED <<call, arg>>
    /\ UNCHANGED ptvars

\* what the motion service answers to an execution request
Executions == {Raises, Resp(<<>>)}

\* plan.execute_async() / plan.execute_supervised() on the Plan returned; the
\* call is appended to those of plan()
Execute(c, out) ==
    /\ pc = "done" /\ call = "plan" /\ ret.kind = "plan"
    /\ pc' = "executed" /\ call' = c
    /\ ret' = out.ret /\ log' = log \o out.log
    /\ UNCHANGED <<arg, op>>
    /\ UNCHANGED ptvars

ExecuteAsync == \E resp \in Executions : Execute("execute_async", execute_async(ret.plan, resp))

ExecuteSupervised ==
    \E resp \in Executions :
        Execute("execute_supervised", execute_supervised(ret.plan, resp))

PlanMoveJoints == PlanCall("MoveJointsOperation")

PlanMoveJointsCollisionFree == PlanCall("MoveJointsCollisionFreeOperation")

PlanMoveCartesian == PlanCall("MoveCartesianOperation")

PlanMoveCartesianCollisionFree == PlanCall("MoveCartesianCollisionFreeOperation")

PlanMoveCartesianLinear == PlanCall("MoveCartesianLinearOperation")

PlanNext ==
    \/ PlanMoveJoints
    \/ PlanMoveJointsCollisionFree
    \/ PlanMoveCartesian
    \/ PlanMoveCartesianCollisionFree
    \/ PlanMoveCartesianLinear
    \/ PlanAgain
    \/ ExecuteAsync
    \/ ExecuteSupervised

PlanSpec == PlanInit /\ [][PlanNext]_vars

(***************************************************************************)
(* Properties of the move operations.                                      *)
(***************************************************************************)
\* C1: on every operation type, with_velocity_scaling(v) for an admissible v
\* that differs from the receiver's velocity_scaling returns an instance that
\* is not the receiver and whose velocity_scaling is v, and the receiver
\* keeps its velocity_scaling.  (Checked under BuildSpec.)
C1_WithVelocityScalingReturnsModifiedCopy ==
    [][(pc = "ready" /\ pc' = "done" /\ call' = "with_velocity_scaling"
        /\ InRange(arg') /\ arg' # op.velocity_scaling)
       => (/\ ret'.kind = "new"
           /\ ret'.op.velocity_scaling = arg'
           /\ op'.velocity_scaling = op.velocity_scaling)]_vars

Calls(fn) == {i \in DOMAIN log : log[i].fn = fn}

\* the joint path of a Cartesian plan(): the start followed by the answer of
\* inverse_kinematics_many
StartOfPlan ==
    CASE op.start.t = "joints" -> op.start.v
      [] op.start.t = "pose" -> log[SetMax(Calls("inverse_kinematics"))].resp.val
      [] OTHER -> log[SetMax(Calls("get_current_joint_positions"))].resp.val

JointPathOfPlan ==
    <<StartOfPlan>> \o log[SetMax(Calls("inverse_kinematics_many"))].resp.val

JointPathKnown ==
    /\ Done("plan")
    /\ op.cls \in {"MoveCartesianOperation", "MoveCartesianCollisionFreeOperation"}
    /\ Calls("inverse_kinematics_many") # {}
    /\ log[SetMax(Calls("inverse_kinematics_many"))].resp.ok

ConsecutiveJump ==
    \E i \in 1..(Len(JointPathOfPlan) - 1) :
        MaxAbsDelta(JointPathOfPlan[i + 1], JointPathOfPlan[i])
            > op.task_space_plan_parameters.ik_jump_threshold

\* C2: in MoveCartesianOperation.plan() and
\* MoveCartesianCollisionFreeOperation.plan(), when two consecutive points of
\* the joint path differ by more than ik_jump_threshold, plan() raises the
\* error that carries delta, index and threshold, and neither plan_move_joints
\* nor plan_collision_free_joint_path has been called.  (Checked under PlanSpec.)
C2_ConsecutiveJumpFailsPlan ==
    (JointPathKnown /\ ConsecutiveJump)
    => (/\ ret.kind = "error"
        /\ Len(ret.info) = 3
        /\ ret.info[1] > ret.info[3]
        /\ ret.info[3] = op.task_space_plan_parameters.ik_jump_threshold
        /\ Calls("plan_move_joints") = {}
        /\ Calls("plan_collision_free_joint_path") = {})

(***************************************************************************)
(* JointLimits (types/JointLimits.py).                                     *)
(*                                                                         *)
(* A numpy array is [vals, writeable, store]: store names the memory that  *)
(* holds the values, two arrays with the same store are views of the same  *)
(* memory.  A limit argument is [kind, vals, store] with kind "scalar" (a  *)
(* float, vals holds it), "list" or "ndarray".  An instance carries the id *)
(* it was allocated with; its four arrays live at 4 * id + 0..3.           *)
(***************************************************************************)
LimitFields == <<"max_velocity", "max_acceleration", "min_position", "max_position">>

Array(vals, writeable, store) == [vals |-> vals, writeable |-> writeable, store |-> store]

NoArray == Array(<<>>, FALSE, 0)

\* what a JointLimits call hands back: "limits" (an instance), "array" (one
\* of its arrays, in that array's field), "bool" (val), "error" (it raised)
NoLimits ==
    [kind |-> "none", err |-> "", val |-> FALSE, id |-> 0, js |-> <<>>,
     max_velocity |-> NoArray, max_acceleration |-> NoArray, min_position |-> NoArray,
     max_position |-> NoArray]

LimitsError(e) == [NoLimits EXCEPT !.kind = "error", !.err = e]

IsLimits(r) == r.kind = "limits"

\* list * n
Repeat(s, n) == [i \in 1..(Len(s) * n) |-> s[((i - 1) % Len(s)) + 1]]

\* ndarray * n
Scaled(s, n) == [i \in DOMAIN s |-> s[i] * n]

\* the inner try / except of __init__ for one limit argument: len(x) raises
\* TypeError for a scalar, len(x) <= 1 raises the ValueError that multiplies x
limit_values(x, n) ==
    IF x.kind = "scalar" THEN [i \in 1..n |-> x.vals[1]]
    ELSE IF Len(x.vals) <= 1
         THEN IF x.kind = "list" THEN Repeat(x.vals, n) ELSE Scaled(x.vals, n)
    ELSE x.vals

\* the outer try of __init__ for one limit argument: the length check and
\* np.fromiter, which allocates the array at store
limit_array(x, n, store) ==
    LET v == limit_values(x, n)
    IN  IF Len(v) # n THEN [ok |-> FALSE, arr |-> NoArray]
        ELSE [ok |-> TRUE, arr |-> Array(v, TRUE, store)]

\* an array left writeable
Thawed(a) == a

\* a.flags.writeable = False
Frozen(a) == [a EXCEPT !.writeable = FALSE]

\* JointLimits(joint_set, max_velocity, max_acceleration, min_position,
\* max_position), allocated as instance id
JointLimits(js, mv, ma, mn, mx, id) ==
    LET n == Len(js)
        a1 == limit_array(mv, n, 4 * id)
        a2 == limit_array(ma, n, 4 * id + 1)
        a3 == limit_array(mn, n, 4 * id + 2)
        a4 == limit_array(mx, n, 4 * id + 3)
    IN  IF ~a1.ok THEN LimitsError("ValueError: velocities are provided")
        ELSE IF ~a2.ok THEN LimitsError("ValueError: accelerations are provided")
        ELSE IF ~a3.ok THEN LimitsError("ValueError: min positions are provided")
        ELSE IF ~a4.ok THEN LimitsError("ValueError: max positions are provided")
        ELSE [kind |-> "limits", err |-> "", val |-> FALSE, id |-> id, js |-> js,
              max_velocity |-> Frozen(a1.arr), max_acceleration |-> Frozen(a2.arr),
              min_position |-> Frozen(a3.arr), max_position |-> Frozen(a4.arr)]

\* JointSet.get_index_of(name), for a name of the set
IndexOf(js, name) == CHOOSE i \in DOMAIN js : js[i] = name

InJointSet(js, name) == \E i \in DOMAIN js : js[i] = name

\* the characters of a joint name, which iterating a str yields
Characters(name) ==
    CASE name = "a" -> <<"a">>
      [] name = "zz" -> <<"z", "z">>
      [] name = "j1" -> <<"j", "1">>
      [] name = "j2" -> <<"j", "2">>
      [] name = "j3" -> <<"j", "3">>
      [] name = "j4" -> <<"j", "4">>

\* raise_from(ValueError(...), exc) in select: the module binds no name
\* raise_from (its imports are future.builtins, deepcopy, numpy, JointSet),
\* so evaluating the call raises NameError
raise_from == LimitsError("NameError: name 'raise_from' is not defined")

\* the arguments select hands to the constructor: JointSet(names) and the four
\* np.zeros arrays filled from self, allocated as instance tmp
select_args(self, names, tmp) ==
    LET iter == IF names.kind = "str" THEN Characters(names.v[1]) ELSE names.v
        picked(f, k) ==
            [kind |-> "ndarray",
             vals |-> [i \in DOMAIN iter |-> self[f].vals[IndexOf(self.js, iter[i])]],
             store |-> 4 * tmp + k]
    IN  [js |-> names.v,
         max_velocity |-> picked("max_velocity", 0),
         max_acceleration |-> picked("max_acceleration", 1),
         min_position |-> picked("min_position", 2),
         max_position |-> picked("max_position", 3)]

\* select(names): [res, args], args being what the constructor was given
select(self, names, tmp, id) ==
    LET iter == IF names.kind = "str" THEN Characters(names.v[1]) ELSE names.v
        a == select_args(self, names, tmp)
        r == JointLimits(a.js, a.max_velocity, a.max_acceleration, a.min_position,
                         a.max_position, id)
    IN  IF iter = <<>>
        THEN [res |-> LimitsError("TypeError: names is not one of the expected types"),
              args |-> [js |-> <<>>, max_velocity |-> NoArray, max_acceleration |-> NoArray,
                        min_position |-> NoArray, max_position |-> NoArray]]
        ELSE IF \E i \in DOMAIN iter : ~InJointSet(self.js, iter[i])
        THEN [res |-> raise_from,
              args |-> [js |-> <<>>, max_velocity |-> NoArray, max_acceleration |-> NoArray,
                        min_position |-> NoArray, max_position |-> NoArray]]
        ELSE IF ~IsLimits(r) THEN [res |-> raise_from, args |-> a]
        ELSE [res |-> r, args |-> a]

\* copy.deepcopy of one array attribute, then flags.writeable = False
deepcopy_array(a, store) == Frozen(Array(a.vals, TRUE, store))

\* __deepcopy__(memo), the copy allocated as instance id
deepcopy(self, id) ==
    [self EXCEPT !.id = id,
                 !.max_velocity = deepcopy_array(self.max_velocity, 4 * id),
                 !.max_acceleration = deepcopy_array(self.max_acceleration, 4 * id + 1),
                 !.min_position = deepcopy_array(self.min_position, 4 * id + 2),
                 !.max_position = deepcopy_array(self.max_position, 4 * id + 3)]

\* the properties max_velocity, max_acceleration, min_position, max_position
read_property(self, f) == [NoLimits EXCEPT !.kind = "array", ![f] = self[f]]

\* iter(self): __iter__ returns a tuple, which is no iterator
iterate(self) == LimitsError("TypeError: iter() returned non-iterator of type 'tuple'")

LimitsBool(b) == [NoLimits EXCEPT !.kind = "bool", !.val = b]

\* __eq__(other), other being "self" (the same object), "limits" (another
\* JointLimits) or "object" (something else)
limits_eq(self, other) ==
    CASE other = "object" -> LimitsBool(FALSE)
      [] other = "self" -> LimitsBool(TRUE)
      [] OTHER -> LimitsError("AttributeError: join_set")

\* numpy's arr[i] = v through a reference to array a: [raised, self], self
\* being the instance afterwards
array_write(self, a, i, v) ==
    LET hit(f) == IF self[f].store = a.store /\ i \in DOMAIN self[f].vals
                  THEN [self[f] EXCEPT !.vals[i] = v] ELSE self[f]
    IN  IF ~a.writeable THEN [raised |-> TRUE, self |-> self]
        ELSE [raised |-> FALSE,
              self |-> [self EXCEPT !.max_velocity = hit("max_velocity"),
                                    !.max_acceleration = hit("max_acceleration"),
                                    !.min_position = hit("min_position"),
                                    !.max_position = hit("max_position")]]

(***************************************************************************)
(* Inputs of the JointLimits calls.                                        *)
(***************************************************************************)
MaxJoints == 3

JointNames == <<"a", "j1", "j2", "j3", "j4">>

LimitJointSets == {SubSeq(JointNames, 1, n) : n \in 1..MaxJoints}

\* the value of joint i in limit field k
LimitValue(k, i) == 10 * k + i

\* the arguments one may pass for limit field k over n joints: a scalar, a
\* list or an ndarray of 0 .. n + 1 values
LimitArgs(k, n) ==
    {[kind |-> "scalar", vals |-> <<LimitValue(k, 0)>>, store |-> 0]}
    \cup {[kind |-> kd, vals |-> [i \in 1..m |-> LimitValue(k, i)], store |-> k - 1] :
            kd \in {"list", "ndarray"}, m \in 0..(n + 1)}

NoLimitArgs ==
    [js |-> <<>>, max_velocity |-> NoArray, max_acceleration |-> NoArray,
     min_position |-> NoArray, max_position |-> NoArray]

\* names for select: a str, or a list of up to two distinct names; "zz" is
\* in no joint set
SelectNames ==
    LET pool == {JointNames[i] : i \in 1..MaxJoints} \cup {"zz"}
    IN  {[kind |-> "str", v |-> <<x>>] : x \in pool}
        \cup {[kind |-> "list", v |-> <<>>]}
        \cup {[kind |-> "list", v |-> <<x>>] : x \in pool}
        \cup {[kind |-> "list", v |-> <<xy[1], xy[2]>>] :
                 xy \in {p \in pool \X pool : p[1] # p[2]}}

\* an instance id no live object of the run has
FreshId(live) == CHOOSE i \in 1..(Cardinality(live) + 1) :
                    i \notin live /\ \A j \in 1..(i - 1) : j \in live

OpIdle == op = NoOp /\ ret = NoRet /\ log = <<>>

InitJointLimits ==
    /\ call = "JointLimits"
    /\ recv = NoLimits
    /\ arg = <<>>
    /\ \E js \in LimitJointSets :
          raw \in [js : {js}, max_velocity : LimitArgs(1, Len(js)),
                   max_acceleration : LimitArgs(2, Len(js)),
                   min_position : LimitArgs(3, Len(js)),
                   max_position : LimitArgs(4, Len(js))]

LimitsInit ==
    /\ pc = "ready"
    /\ res = NoLimits
    /\ others = <<>> /\ form = "list"
    /\ OpIdle
    /\ InitJointLimits

ConstructLimits ==
    /\ pc = "ready" /\ call = "JointLimits"
    /\ Return(JointLimits(raw.js, raw.max_velocity, raw.max_acceleration,
                          raw.min_position, raw.max_position, 1))

\* a call on the instance recv
LimitsCalled(c, a, r, args) ==
    /\ pc = "ready" /\ call = "" /\ IsLimits(recv)
    /\ pc' = "done" /\ call' = c /\ arg' = a /\ res' = r /\ raw' = args
    /\ UNCHANGED <<recv, others, form>>
    /\ UNCHANGED opvars

Select ==
    \E names \in SelectNames :
        LET tmp == FreshId({recv.id})
            out == select(recv, names, tmp, FreshId({recv.id, tmp}))
        IN  LimitsCalled("select", names, out.res, out.args)

DeepCopy == LimitsCalled("deepcopy", <<>>, deepcopy(recv, FreshId({recv.id})), NoLimitArgs)

ReadProperty ==
    \E k \in DOMAIN LimitFields :
        LimitsCalled(LimitFields[k], <<>>, read_property(recv, LimitFields[k]), NoLimitArgs)

Iterate == LimitsCalled("iter", <<>>, iterate(recv), NoLimitArgs)

Compare ==
    \E other \in {"self", "limits", "object"} :
        LimitsCalled("eq", other, limits_eq(recv, other), NoLimitArgs)

\* the caller assigns an element of an array a property handed out
WriteArray ==
    /\ pc = "done" /\ res.kind = "array"
    /\ \E k \in DOMAIN LimitFields :
          /\ call = LimitFields[k]
          /\ LET w == array_write(recv, res[LimitFields[k]], 1, 99)
             IN  /\ recv' = w.self
                 /\ res' = IF w.raised
                           THEN LimitsError("ValueError: assignment destination is read-only")
                           ELSE LimitsBool(TRUE)
    /\ call' = "write"
    /\ UNCHANGED <<pc, arg, raw, others, form>>
    /\ UNCHANGED opvars

\* the caller goes on with the instance a call returned ...
AdoptLimits ==
    /\ pc = "done" /\ IsLimits(res)
    /\ recv' = res
    /\ pc' = "ready" /\ call' = "" /\ arg' = <<>> /\ res' = NoLimits /\ raw' = NoLimitArgs
    /\ UNCHANGED <<others, form>>
    /\ UNCHANGED opvars

\* ... or with the instance it called
KeepLimits ==
    /\ pc = "done" /\ IsLimits(recv)
    /\ pc' = "ready" /\ call' = "" /\ arg' = <<>> /\ res' = NoLimits /\ raw' = NoLimitArgs
    /\ UNCHANGED <<recv, others, form>>
    /\ UNCHANGED opvars

LimitsNext ==
    \/ ConstructLimits
    \/ Select
    \/ DeepCopy
    \/ ReadProperty
    \/ Iterate
    \/ Compare
    \/ WriteArray
    \/ AdoptLimits
    \/ KeepLimits

LimitsSpec == LimitsInit /\ [][LimitsNext]_vars

(***************************************************************************)
(* Properties of JointLimits, for LimitsSpec.                              *)
(***************************************************************************)
ValidLimitArg(x, n) == x.kind = "scalar" \/ Len(x.vals) = n

ExpectedLimit(x, n) == IF x.kind = "scalar" THEN [i \in 1..n |-> x.vals[1]] ELSE x.vals

LengthMismatchErrors ==
    {"ValueError: velocities are provided", "ValueError: accelerations are provided",
     "ValueError: min positions are provided", "ValueError: max positions are provided"}

\* C12: for each of the four limit arguments over n joints, a scalar yields n
\* copies of it and a sequence of length n its values in order; when some
\* argument is a sequence of another length the construction raises the
\* length-mismatch ValueError and there is no instance.
C12_LimitArgumentsBroadcastOrMatch ==
    Done("JointLimits")
    => LET n == Len(raw.js)
       IN  IF \A k \in DOMAIN LimitFields : ValidLimitArg(raw[LimitFields[k]], n)
           THEN /\ IsLimits(res)
                /\ \A k \in DOMAIN LimitFields :
                      res[LimitFields[k]].vals = ExpectedLimit(raw[LimitFields[k]], n)
           ELSE res.kind = "error" /\ res.err \in LengthMismatchErrors

Requested == arg.v

\* C13: select(names), for one joint name or a list of joint names that are
\* all in the joint set, returns a JointLimits over exactly the requested
\* joints in the requested order, each limit of each joint being the source's;
\* when a requested name is not in the joint set, select raises ValueError.
C13_SelectProjectsOrRaises ==
    (Done("select") /\ Requested # <<>>)
    => IF \A i \in DOMAIN Requested : InJointSet(recv.js, Requested[i])
       THEN /\ IsLimits(res)
            /\ res.js = Requested
            /\ \A k \in DOMAIN LimitFields : \A i \in DOMAIN Requested :
                  res[LimitFields[k]].vals[i]
                      = recv[LimitFields[k]].vals[IndexOf(recv.js, Requested[i])]
       ELSE res.kind = "error" /\ res.err = "ValueError: joint name not exist in joint names"

\* the arrays of an instance that select or deepcopy returned are read-only
\* and live in memory of their own
DerivedIsolated ==
    (pc = "done" /\ call \in {"select", "deepcopy"} /\ IsLimits(res))
    => \A k \in DOMAIN LimitFields :
          /\ ~res[LimitFields[k]].writeable
          /\ \A j \in DOMAIN LimitFields :
                /\ res[LimitFields[k]].store # recv[LimitFields[j]].store
                /\ res[LimitFields[k]].store # raw[LimitFields[j]].store
                /\ j # k => res[LimitFields[k]].store # res[LimitFields[j]].store

\* a constructed instance shares no memory with the sequences it was given
ConstructedIsolated ==
    (Done("JointLimits") /\ IsLimits(res))
    => \A k \in DOMAIN LimitFields : \A j \in DOMAIN LimitFields :
          raw[LimitFields[j]].kind = "ndarray"
          => res[LimitFields[k]].store # raw[LimitFields[j]].store

\* C14: the four arrays of an instance stay as constructed under property
\* reads (and writes attempted through the arrays read), select, deep copy,
\* iteration and comparison; the arrays of an instance returned by select or
\* deep copy are read-only and share no memory with the source's arrays or
\* with the sequences handed to the constructor.
C14_LimitArraysFrozenAndUnshared ==
    /\ [](DerivedIsolated /\ ConstructedIsolated)
    /\ [][(IsLimits(recv) /\ IsLimits(recv') /\ recv'.id = recv.id) => recv' = recv]_vars

\* a write through an array read from an instance that select or deep copy
\* returned has been refused
C14_Witness ==
    /\ pc = "done" /\ call = "write" /\ res.kind = "error"
    /\ IsLimits(recv) /\ recv.id = 2

(***************************************************************************)
(* Further properties of the move operations, for BuildSpec and PlanSpec.  *)
(***************************************************************************)
\* the value with_args(a) is to leave in field f, whose current value is cur
Updated(a, f, cur) == IF a[f].some THEN a[f].v ELSE cur

\* C15: with_args(...) returns a new operation of the receiver's class in
\* which every argument given (0.0 included) has the given value and every
\* argument left as None keeps the receiver's value.
C15_WithArgsUpdatesGivenFields ==
    Done("with_args")
    => /\ ret.kind = "new"
       /\ ret.op.cls = op.cls
       /\ ret.op.velocity_scaling = Updated(arg, "velocity_scaling", op.velocity_scaling)
       /\ ret.op.acceleration_scaling
             = Updated(arg, "acceleration_scaling", op.acceleration_scaling)
       /\ ret.op.plan_parameters.collision_check
             = Updated(arg, "collision_check", op.plan_parameters.collision_check)
       /\ ret.op.plan_parameters.max_deviation
             = Updated(arg, "max_deviation", op.plan_parameters.max_deviation)
       /\ ret.op.plan_parameters.sample_resolution
             = Updated(arg, "sample_resolution", op.plan_parameters.sample_resolution)
       /\ ret.op.ik_jump_threshold
             = Updated(arg, "ik_jump_threshold", op.ik_jump_threshold)

SingleFieldSetters ==
    {"with_start", "with_velocity_scaling", "with_acceleration_scaling",
     "with_sample_resolution", "with_max_deviation"}

\* the configuration field a setter names
FieldOf(c) ==
    CASE c = "with_start" -> "start"
      [] c = "with_velocity_scaling" -> "velocity_scaling"
      [] c = "with_acceleration_scaling" -> "acceleration_scaling"
      [] c = "with_sample_resolution" -> "sample_resolution"
      [] c = "with_max_deviation" -> "max_deviation"
      [] c = "with_collision_check" -> "collision_check"
      [] c = "with_seed" -> "seed"
      [] c = "with_ik_jump_threshold" -> "ik_jump_threshold"

\* the value is one the setter accepts
Admissible(c, v) ==
    c \in {"with_velocity_scaling", "with_acceleration_scaling"} => InRange(v)

\* C16: a single-field setter called with an admissible value that differs
\* from the current one returns an operation of the receiver's class in which
\* the named field has the given value and every other configuration field
\* (move_group, start, target, velocity_scaling, acceleration_scaling,
\* collision_check, sample_resolution, max_deviation, end_effector, seed,
\* ik_jump_threshold) is the receiver's, also after a chain of such calls.
C16_SetterChangesOnlyItsField ==
    \A c \in SingleFieldSetters :
        (Done(c) /\ Admissible(c, arg) /\ arg # to_args(op)[FieldOf(c)])
        => /\ ret.kind = "new"
           /\ ret.op.cls = op.cls
           /\ to_args(ret.op) = [to_args(op) EXCEPT ![FieldOf(c)] = arg]

\* C17: with_collision_check(v) returns an operation whose
\* plan_parameters.collision_check is v, for both booleans and every
\* operation type, also when v is the receiver's current collision_check.
C17_WithCollisionCheckReturnsOperation ==
    Done("with_collision_check")
    => /\ ret.kind \in {"new", "self"}
       /\ ret.op.cls = op.cls
       /\ ret.op.plan_parameters.collision_check = arg

\* C18: on a Cartesian operation, with_seed(s) with s different from the
\* current seed returns a new operation whose seed is s, and
\* with_ik_jump_threshold(x) with x different from the current threshold
\* returns a new operation whose ik_jump_threshold, as plan() uses it, is x;
\* no error is raised.
C18_WithSeedAndThresholdReturnModifiedCopy ==
    /\ (Done("with_seed") /\ arg # op.seed)
       => (ret.kind = "new" /\ ret.op.cls = op.cls /\ ret.op.seed = arg)
    /\ (Done("with_ik_jump_threshold") /\ arg # op.ik_jump_threshold)
       => (/\ ret.kind = "new" /\ ret.op.cls = op.cls
           /\ ret.op.ik_jump_threshold = arg
           /\ ret.op.task_space_plan_parameters.ik_jump_threshold = arg)

\* the calls of the first and of the second plan() of a run
FirstRun == SubSeq(log, 1, Len(log) \div 2)

SecondRun == SubSeq(log, (Len(log) \div 2) + 1, Len(log))

UnitRange(x) == 0 <= x /\ x <= 1

ScalingSetters == {"with_velocity_scaling", "with_acceleration_scaling"}

\* the operation holds no scaling factor outside the range
ScalingsInRange(o) ==
    /\ UnitRange(o.velocity_scaling) /\ UnitRange(o.acceleration_scaling)
    /\ UnitRange(o.plan_parameters.velocity_scaling)
    /\ UnitRange(o.plan_parameters.acceleration_scaling)
    /\ o.cls \in CartesianClasses
       => /\ UnitRange(o.task_space_plan_parameters.velocity_scaling)
          /\ UnitRange(o.task_space_plan_parameters.acceleration_scaling)

\* the parameters of every request a plan() of o would send are in range
PlanSendsInRange(o) ==
    \A env \in Envs(o) :
        LET l == plan(o, env).log
        IN  \A i \in DOMAIN l :
                l[i].params.ok => /\ UnitRange(l[i].params.velocity_scaling)
                                  /\ UnitRange(l[i].params.acceleration_scaling)

\* C20: with_velocity_scaling and with_acceleration_scaling with a value
\* outside [0, 1] raise at the call, no operation that was built or returned
\* holds a scaling outside the range, and no request plan() sends carries one.
C20_ScalingRangeCheckedAtTheCall ==
    /\ \A c \in ScalingSetters : (Done(c) /\ ~UnitRange(arg)) => ret.kind = "error"
    /\ ScalingsInRange(op) /\ PlanSendsInRange(op)
    /\ ret.kind \in {"new", "self"} => (ScalingsInRange(ret.op) /\ PlanSendsInRange(ret.op))

\* with_velocity_scaling of a Cartesian operation was called with a value
\* above the range and raised
C20_Witness ==
    /\ Done("with_velocity_scaling") /\ op.cls \in CartesianClasses
    /\ arg > 1 /\ ret.kind = "error"

(***************************************************************************)
(* The calls a single plan() makes (PlanSpec, pc = "done").                *)
(***************************************************************************)
CollisionFreeClasses ==
    {"MoveJointsCollisionFreeOperation", "MoveCartesianCollisionFreeOperation"}

\* the only call of fn in the log, when there is exactly one
TheCall(fn) == log[SetMax(Calls(fn))]

Once(fn) == Cardinality(Calls(fn)) = 1

\* every call of fn lies before every call of gn
Before(fn, gn) == \A i \in Calls(fn), j \in Calls(gn) : i < j

\* the loop of the jump check found no point too far from path[0]
JumpCheckPassed(path, threshold) ==
    \A i \in 2..Len(path) : MaxAbsDelta(path[i], path[1]) <= threshold

\* C21: in the two collision free plan() methods plan_collision_free_joint_path
\* is called once and before plan_move_joints, plan_move_joints is called once
\* with the path plan_collision_free_joint_path returned and the operation's
\* plan parameters, and the Plan holds the trajectory plan_move_joints
\* returned; the Cartesian variant calls plan_collision_free_joint_path only
\* after inverse kinematics has answered and the jump check has passed.
C21_CollisionFreePassPrecedesPlanning ==
    (Done("plan") /\ op.cls \in CollisionFreeClasses)
    => /\ Cardinality(Calls("plan_collision_free_joint_path")) <= 1
       /\ Cardinality(Calls("plan_move_joints")) <= 1
       /\ Before("plan_collision_free_joint_path", "plan_move_joints")
       /\ Calls("plan_move_joints") # {}
          => /\ Once("plan_collision_free_joint_path")
             /\ TheCall("plan_collision_free_joint_path").resp.ok
             /\ TheCall("plan_move_joints").path
                    = TheCall("plan_collision_free_joint_path").resp.val
             /\ TheCall("plan_move_joints").params = op.plan_parameters
       /\ ret.kind = "plan"
          => /\ Once("plan_collision_free_joint_path") /\ Once("plan_move_joints")
             /\ ret.plan.trajectory = TheCall("plan_move_joints").resp.val
             /\ ret.plan.parameters = op.plan_parameters
       /\ (op.cls = "MoveCartesianCollisionFreeOperation"
           /\ Calls("plan_collision_free_joint_path") # {})
          => /\ Once("inverse_kinematics_many")
             /\ Before("inverse_kinematics_many", "plan_collision_free_joint_path")
             /\ Before("inverse_kinematics", "plan_collision_free_joint_path")
             /\ TheCall("inverse_kinematics_many").resp.ok
             /\ TheCall("plan_collision_free_joint_path").path = JointPathOfPlan
             /\ JumpCheckPassed(JointPathOfPlan,
                                op.task_space_plan_parameters.ik_jump_threshold)

\* a Cartesian collision free plan() with a pose as start returned a Plan; the
\* path the collision free pass returned is not the one it was given
C21_Witness ==
    /\ Done("plan") /\ op.cls = "MoveCartesianCollisionFreeOperation"
    /\ op.start.t = "pose" /\ ret.kind = "plan"
    /\ TheCall("plan_collision_free_joint_path").path
           # TheCall("plan_move_joints").path

\* the start pose and the seed a linear plan() has to use
LinearStart ==
    IF op.start.t = "none" THEN TheCall("get_current_pose").resp.val ELSE op.start.v

LinearSeed ==
    IF op.seed.t = "none"
    THEN Joints(TheCall("get_current_joint_positions").resp.val)
    ELSE op.seed

\* every query of the robot's state was answered
RobotStateRead ==
    \A i \in Calls("get_current_pose") \cup Calls("get_current_joint_positions") :
        log[i].resp.ok

\* C22: MoveCartesianLinearOperation.plan() calls no inverse kinematics, raises
\* no jump error and never calls plan_move_joints; it calls
\* plan_move_pose_linear once with the start pose (explicit, or the end
\* effector's current pose) in front of the target, the seed (explicit, or the
\* current joint positions) and the task space plan parameters.
C22_LinearPlanDelegatesDirectly ==
    (Done("plan") /\ op.cls = "MoveCartesianLinearOperation")
    => /\ Calls("inverse_kinematics") = {} /\ Calls("inverse_kinematics_many") = {}
       /\ Calls("plan_move_joints") = {}
       /\ Calls("plan_collision_free_joint_path") = {}
       /\ ret.info = <<>>
       /\ Cardinality(Calls("get_current_pose")) <= 1
       /\ Cardinality(Calls("get_current_joint_positions")) <= 1
       /\ op.start.t # "none" => Calls("get_current_pose") = {}
       /\ op.seed.t # "none" => Calls("get_current_joint_positions") = {}
       /\ op.seed.t = "none" => Once("get_current_joint_positions")
       /\ (op.start.t = "none" /\ Once("plan_move_pose_linear")) => Once("get_current_pose")
       /\ Cardinality(Calls("plan_move_pose_linear")) <= 1
       /\ Once("plan_move_pose_linear") <=> RobotStateRead
       /\ Once("plan_move_pose_linear")
          => /\ TheCall("plan_move_pose_linear").path = LinearStart \o op.target
             /\ TheCall("plan_move_pose_linear").seed = LinearSeed
             /\ TheCall("plan_move_pose_linear").params = op.task_space_plan_parameters
       /\ ret.kind = "plan"
          => ret.plan.trajectory = TheCall("plan_move_pose_linear").resp.val

\* a linear plan() over two target poses, start and seed taken from the robot,
\* returned a Plan
C22_Witness ==
    /\ Done("plan") /\ op.cls = "MoveCartesianLinearOperation"
    /\ op.start.t = "none" /\ op.seed.t = "none"
    /\ Len(op.target) = 2 /\ ret.kind = "plan"
    /\ op.task_space_plan_parameters.ik_jump_threshold = 0

\* the collaborator operations plan() and the Plan call
Collaborators ==
    {"get_current_joint_positions", "get_current_pose", "inverse_kinematics",
     "inverse_kinematics_many", "plan_collision_free_joint_path", "plan_move_joints",
     "plan_move_pose_linear", "execute_joint_trajectory",
     "execute_joint_trajectory_supervised"}

\* one plan(), or one plan() and one execution of its Plan, has run
SingleRun == pc \in {"done", "executed"} /\ call # ""

Executed == pc = "executed"

Failed == {i \in DOMAIN log : ~log[i].resp.ok}

\* a failed call is the last call made and the caller gets its error, no Plan
FailurePropagates ==
    /\ Failed \subseteq {Len(log)}
    /\ Failed # {}
       => \/ ret.kind = "error" /\ ret.err = "ServiceException" /\ ret.plan = NoPlan
          \/ ret.kind = "task" /\ ret.err = "ServiceException"
    /\ (Done("plan") /\ ret.kind = "plan") => Failed = {}

\* one execution makes one call of its collaborator operation
ExecutesOnce ==
    /\ (Executed /\ call = "execute_async")
       => (/\ Once("execute_joint_trajectory")
           /\ Calls("execute_joint_trajectory_supervised") = {})
    /\ (Executed /\ call = "execute_supervised")
       => (/\ Once("execute_joint_trajectory_supervised")
           /\ Calls("execute_joint_trajectory") = {})

\* C23, as stated: in a single plan() and a single execution every
\* collaborator operation is invoked at most once, a failed call is the last
\* call, its error reaches the caller and no Plan is returned.
C23_EachCollaboratorInvokedAtMostOnce ==
    SingleRun
    => /\ \A fn \in Collaborators : Cardinality(Calls(fn)) <= 1
       /\ FailurePropagates
       /\ ExecutesOnce

\* the two reads of the robot's joint positions of a Cartesian plan(): one for
\* the seed and one for the start, both unset, the first of them answered
ReadsSeedAndStart ==
    /\ op.cls \in CartesianClasses /\ op.cls # "MoveCartesianLinearOperation"
    /\ op.seed.t = "none" /\ op.start.t = "none"
    /\ Calls("get_current_joint_positions") = {1, 2}
    /\ log[1].resp.ok

\* C23: no failed collaborator call is made again.  In a single plan() and a
\* single execution every planning, inverse kinematics and execution
\* operation is invoked at most once; get_current_joint_positions is invoked
\* at most once too, except that a Cartesian plan() with neither seed nor
\* start reads it once for each; a failed call is the last call, its error
\* reaches the caller and no Plan is returned.
C23_FailedCallIsNeverRepeated ==
    SingleRun
    => /\ \A fn \in Collaborators \ {"get_current_joint_positions"} :
              Cardinality(Calls(fn)) <= 1
       /\ \/ Cardinality(Calls("get_current_joint_positions")) <= 1
          \/ ReadsSeedAndStart
       /\ FailurePropagates
       /\ ExecutesOnce

\* a Cartesian plan() read the joint positions for seed and start, and the
\* inverse kinematics of the target failed
C23_Witness ==
    /\ Done("plan") /\ ReadsSeedAndStart
    /\ Failed = {3} /\ log[3].fn = "inverse_kinematics_many"
    /\ ret.kind = "error"

\* C24: MoveJointsOperation.plan() with an explicit start does not query the
\* robot and passes the start followed by the target to plan_move_joints;
\* with no start it queries get_current_joint_positions once, before
\* planning, and the answer is the first point of the path; the Plan returned
\* carries the operation's plan parameters and the trajectory plan_move_joints
\* returned.
C24_MoveJointsResolvesStart ==
    (Done("plan") /\ op.cls = "MoveJointsOperation")
    => /\ Cardinality(Calls("plan_move_joints")) <= 1
       /\ Before("get_current_joint_positions", "plan_move_joints")
       /\ op.start.t # "none"
          => /\ Calls("get_current_joint_positions") = {}
             /\ Once("plan_move_joints")
             /\ TheCall("plan_move_joints").path = <<op.start.v>> \o op.target
       /\ op.start.t = "none"
          => /\ Once("get_current_joint_positions")
             /\ Once("plan_move_joints") <=> TheCall("get_current_joint_positions").resp.ok
             /\ Once("plan_move_joints")
                => TheCall("plan_move_joints").path
                       = <<TheCall("get_current_joint_positions").resp.val>> \o op.target
       /\ Once("plan_move_joints")
          => TheCall("plan_move_joints").params = op.plan_parameters
       /\ ret.kind = "plan"
          => /\ Once("plan_move_joints")
             /\ ret.plan.parameters = op.plan_parameters
             /\ ret.plan.trajectory = TheCall("plan_move_joints").resp.val
       /\ ret.kind = "plan" <=> (Once("plan_move_joints") /\ TheCall("plan_move_joints").resp.ok)

\* a MoveJointsOperation without start planned a path of two target points
\* from the joint positions the robot reported
C24_Witness ==
    /\ Done("plan") /\ op.cls = "MoveJointsOperation"
    /\ op.start.t = "none" /\ Len(op.target) = 2 /\ ret.kind = "plan"
    /\ TheCall("plan_move_joints").path[1] = <<1, 1>>

(***************************************************************************)
(* Pose (data_types/pose.py is not among the sources; modelled from the    *)
(* specification and the fixtures of tests/test_data_type_pose.py).        *)
(*                                                                         *)
(* A pose is [translation, quaternion, frame_id].  The rotations are the   *)
(* 24 Hurwitz unit quaternions, whose rotation matrices and products are   *)
(* exact in integers: a quaternion <<W, X, Y, Z>> stands for               *)
(* (W + Xi + Yj + Zk) / 2.  The quarter turn of the fixture pose3 and its  *)
(* composites with the third turns are among them.                         *)
(***************************************************************************)
MaxShift == 1

Signs == {0 - 1, 1}

Quaternions ==
    {q \in [1..4 -> {0 - 2, 0, 2}] : Cardinality({i \in 1..4 : q[i] # 0}) = 1}
        \cup [1..4 -> Signs]

\* the translations of the model: multiples of a vector off every axis
Shifts == {<<k, 0 - k, 2 * k>> : k \in 0..MaxShift}

Frames == {"world", "new_frame"}

Pose(t, q, f) == [translation |-> t, quaternion |-> q, frame_id |-> f]

Poses == {Pose(t, q, "world") : t \in Shifts, q \in Quaternions}

NoPose == Pose(<<>>, <<>>, "")

\* Quaternion.__mul__: the Hamilton product
quaternion_mul(a, b) ==
    <<(a[1] * b[1] - a[2] * b[2] - a[3] * b[3] - a[4] * b[4]) \div 2,
      (a[1] * b[2] + a[2] * b[1] + a[3] * b[4] - a[4] * b[3]) \div 2,
      (a[1] * b[3] - a[2] * b[4] + a[3] * b[1] + a[4] * b[2]) \div 2,
      (a[1] * b[4] + a[2] * b[3] - a[3] * b[2] + a[4] * b[1]) \div 2>>

\* Quaternion.inverse of a unit quaternion: its conjugate
quaternion_inverse(q) == <<q[1], 0 - q[2], 0 - q[3], 0 - q[4]>>

\* Quaternion.rotation_matrix
rotation_matrix(q) ==
    LET w == q[1]
        x == q[2]
        y == q[3]
        z == q[4]
    IN  <<(<<1 - ((y * y + z * z) \div 2), (x * y - z * w) \div 2, (x * z + y * w) \div 2>>),
          (<<(x * y + z * w) \div 2, 1 - ((x * x + z * z) \div 2), (y * z - x * w) \div 2>>),
          (<<(x * z - y * w) \div 2, (y * z + x * w) \div 2, 1 - ((x * x + y * y) \div 2)>>)>>

\* Quaternion.rotate(v)
rotate(q, v) ==
    LET m == rotation_matrix(q)
    IN  [i \in 1..3 |-> m[i][1] * v[1] + m[i][2] * v[2] + m[i][3] * v[3]]

\* np.matmul of two 4x4 matrices
matmul(a, b) ==
    [i \in 1..4 |-> [j \in 1..4 |->
        a[i][1] * b[1][j] + a[i][2] * b[2][j] + a[i][3] * b[3][j] + a[i][4] * b[4][j]]]

\* np.eye(4)
Eye4 == [i \in 1..4 |-> [j \in 1..4 |-> IF i = j THEN 1 ELSE 0]]

\* Pose.transformation_matrix
transformation_matrix(p) ==
    LET m == rotation_matrix(p.quaternion)
    IN  [i \in 1..4 |-> [j \in 1..4 |->
            IF i <= 3 /\ j <= 3 THEN m[i][j]
            ELSE IF i <= 3 THEN p.translation[i]
            ELSE IF j = 4 THEN 1 ELSE 0]]

\* an inverse that turns the rotation back and keeps the translation
pose_inverse_rotation_only(p, new_frame_id) ==
    Pose(p.translation, quaternion_inverse(p.quaternion), new_frame_id)

\* Pose.inverse(new_frame_id)
pose_inverse(p, new_frame_id) ==
    LET q == quaternion_inverse(p.quaternion)
        t == rotate(q, p.translation)
    IN  Pose([i \in 1..3 |-> 0 - t[i]], q, new_frame_id)

\* a composition that adds the translations as they are
pose_mul_unrotated(p, other) ==
    Pose([i \in 1..3 |-> p.translation[i] + other.translation[i]],
         quaternion_mul(p.quaternion, other.quaternion), p.frame_id)

\* Pose.__mul__ with a Pose
pose_mul(p, other) ==
    LET t == rotate(p.quaternion, other.translation)
    IN  Pose([i \in 1..3 |-> p.translation[i] + t[i]],
             quaternion_mul(p.quaternion, other.quaternion), p.frame_id)

PoseInit ==
    /\ pc = "ready" /\ call = "" /\ arg = NoPose
    /\ recv \in Poses
    /\ others = <<>>
    /\ res = NoPose
    /\ form = "list" /\ raw = <<>>
    /\ OpIdle

\* q = p.inverse(f); res = p * q
PoseInverse ==
    /\ pc = "ready"
    /\ \E f \in Frames :
          /\ arg' = pose_inverse(recv, f)
          /\ res' = pose_mul(recv, pose_inverse(recv, f))
    /\ pc' = "done" /\ call' = "inverse"
    /\ UNCHANGED <<recv, others, form, raw>>
    /\ UNCHANGED opvars

\* res = p * q
PoseMul ==
    /\ pc = "ready"
    /\ \E q \in Poses : arg' = q /\ res' = pose_mul(recv, q)
    /\ pc' = "done" /\ call' = "mul"
    /\ UNCHANGED <<recv, others, form, raw>>
    /\ UNCHANGED opvars

\* res = (p * q) * r, p * q being the product just taken
PoseMulMul ==
    /\ pc = "done" /\ call = "mul"
    /\ \E r \in Poses : others' = <<arg, r>> /\ res' = pose_mul(res, r)
    /\ pc' = "done" /\ call' = "mul_mul"
    /\ UNCHANGED <<recv, arg, form, raw>>
    /\ UNCHANGED opvars

PoseNext ==
    \/ PoseInverse
    \/ PoseMul
    \/ PoseMulMul

PoseSpec == PoseInit /\ [][PoseNext]_vars

\* C25: for every pose p and every new frame id the transformation matrix of
\* p * p.inverse(new_frame_id) is the 4x4 identity, element by element.
C25_PoseTimesInverseIsIdentity ==
    Done("inverse") => transformation_matrix(res) = Eye4

\* a pose that both turns and shifts was multiplied by its inverse in a new
\* frame
C25_Witness ==
    /\ Done("inverse") /\ arg.frame_id = "new_frame"
    /\ recv.translation # <<0, 0, 0>>
    /\ transformation_matrix(recv) # Eye4
    /\ rotation_matrix(recv.quaternion) # rotation_matrix(<<2, 0, 0, 0>>)
    /\ transformation_matrix(res) = Eye4

\* C26: the transformation matrix of p1 * p2 is the product of the matrices
\* of p1 and p2, and (p1 * p2) * p3 is p1 * (p2 * p3).
C26_PoseCompositionIsMatrixProduct ==
    /\ Done("mul")
       => transformation_matrix(res)
              = matmul(transformation_matrix(recv), transformation_matrix(arg))
    /\ Done("mul_mul")
       => /\ res = pose_mul(recv, pose_mul(others[1], others[2]))
          /\ transformation_matrix(res)
                 = matmul(transformation_matrix(recv),
                          matmul(transformation_matrix(others[1]),
                                 transformation_matrix(others[2])))

\* three poses that do not commute were composed
C26_Witness ==
    /\ Done("mul_mul")
    /\ pose_mul(recv, others[1]) # pose_mul(others[1], recv)
    /\ pose_mul(others[1], others[2]) # pose_mul(others[2], others[1])
    /\ \A p \in {recv, others[1], others[2]} : p.translation # <<0, 0, 0>>

\* the planning service a Cartesian plan() hands its joint path to
NextStage ==
    IF op.cls = "MoveCartesianCollisionFreeOperation"
    THEN "plan_collision_free_joint_path" ELSE "plan_move_joints"

\* C27: in MoveCartesianOperation.plan() and
\* MoveCartesianCollisionFreeOperation.plan(), when every two consecutive
\* points of the joint path (the start, then the inverse kinematics
\* solutions) differ by at most ik_jump_threshold, plan() raises no jump
\* error and hands the path to the planning service, however far later points
\* lie from the first.  (Checked under PlanSpec.)
C27_NoFalseJumpAlarm ==
    (JointPathKnown /\ ~ConsecutiveJump)
    => /\ ret.info = <<>>
       /\ Once(NextStage)
       /\ TheCall(NextStage).path = JointPathOfPlan

PointFields == {"positions", "velocities", "accelerations", "efforts"}

\* two results carry the same point
SamePoint(a, b) ==
    /\ IsPoint(a) /\ IsPoint(b)
    /\ a.time = b.time
    /\ \A f \in PointFields : a[f] = b[f]

\* a.merge(b) and a.merge([b])
SingleForm == merge(recv, others, "single")

ListForm == merge(recv, others, "list")

\* C28: for all points a and b, a.merge(b) and a.merge([b]) fail on the same
\* inputs, and where they succeed they return points with the same
\* time_from_start, positions, velocities, accelerations and efforts.
C28_MergeFormsAgree ==
    (Done("merge") /\ Len(others) = 1)
    => /\ res \in {SingleForm, ListForm}
       /\ IsPoint(SingleForm) <=> IsPoint(ListForm)
       /\ IsPoint(SingleForm) => SamePoint(SingleForm, ListForm)

\* the query time brought into [t0, t1]
ClampedTime(t0, t1, time) == IF time < t0 THEN t0 ELSE IF time > t1 THEN t1 ELSE time

\* C29: the point interpolate_cubic returns is stamped with the time at which
\* it was evaluated: its time_from_start lies in [self.time_from_start,
\* other.time_from_start], also when the query time lies outside.
C29_InterpolatedPointStampedWithClampedTime ==
    (Done("interpolate_cubic") /\ IsPoint(res))
    => /\ recv.time <= res.time /\ res.time <= others[1].time
       /\ res.time = ClampedTime(recv.time, others[1].time, arg)

\* the other operand is a point with the time and the fields of self
StructurallyEqual ==
    /\ form # "foreign"
    /\ others[1].time = recv.time
    /\ \A f \in PointFields : others[1][f] = recv[f]

\* C30: == on JointTrajectoryPoint never raises; it returns True exactly when
\* time_from_start, positions, velocities, accelerations and efforts are all
\* equal (absent only equal to absent) and False otherwise, also for two
\* distinct instances with equal time_from_start and positions; != is its
\* negation.
C30_PointEqualityTotalAndStructural ==
    /\ Done("__eq__")
       => /\ res.kind \in {"true", "false"}
          /\ res.kind = "true" <=> StructurallyEqual
    /\ Done("__ne__")
       => /\ res.kind \in {"true", "false"}
          /\ res.kind = "false" <=> StructurallyEqual

====
